---- MODULE Spec2Model ----
(***************************************************************************)
(* State-machine model of the concurrency, isolation and resource-control *)
(* substrate of snowflake-mcp-server.                                      *)
(*                                                                         *)
(* The program runs on one cooperative asyncio scheduler: code between two *)
(* suspension points is atomic.  An `await` of an uncontended asyncio.Lock *)
(* does not suspend; driver calls (run_in_executor), asyncio.sleep and a   *)
(* contended lock do.  Every action below is one such atomic segment.      *)
(*                                                                         *)
(* Each component has its own specification (SpecPool, SpecTx, SpecQuota,  *)
(* SpecCB, SpecRL, SpecSQL); the variables of the other components stay at their initial    *)
(* values.                                                                 *)
(***************************************************************************)
EXTENDS Integers, Sequences, FiniteSets, Bags, TLC

(***************************************************************************)
(* State                                                                   *)
(***************************************************************************)

\* Connection pool (utils/async_pool.py).
VARIABLES
    connections,   \* AsyncConnectionPool._connections
    in_use,        \* PooledConnection.in_use, per connection object
    is_healthy,    \* PooledConnection.is_healthy
    closed,        \* AsyncConnectionPool._closed
    poolLock,      \* holder of AsyncConnectionPool._lock: LockFree, HealthChecker or a task
    connLock,      \* holder of PooledConnection._lock: LockFree, HealthChecker or a task
    tpc,           \* position of each request task inside pool.acquire()
    tconn,         \* the PooledConnection the task's acquire scope got from _get_connection
    acquired,      \* ghost: 1 once the current acquire() returned a connection
    released,      \* ghost: number of mark_available() runs of the current acquire()
    lastExit,      \* ghost: how the last scope body of the task ended
    hcpc,          \* position of the health-check task
    hcTodo,        \* connections of the copy still to be visited by _perform_health_checks
    hcRemove,      \* connections_to_remove
    hcCur,         \* connection under health check
    closepc,       \* position of close()
    waited         \* rounds of `await asyncio.sleep(0.1)` the task's _get_connection has waited


poolVars == <<connections, in_use, is_healthy, closed, poolLock, connLock, tpc,
              tconn, acquired, released, lastExit, hcpc, hcTodo, hcRemove,
              hcCur, closepc, waited>>

\* One pooled session under the isolated / transactional wrapper.
VARIABLES
    sess,      \* the session: [db, schema, autocommit, inTx]
    wrapper,   \* db_ops: [kind, original_database, original_schema, context_changed]
    tm,        \* db_ops.transaction_manager: [in_transaction, autocommit_original]
    metrics,   \* RequestMetrics counters of the request
    scope,     \* [phase, opCount]: where the handler is inside the wrapper scope
    lastOp,    \* ghost: the last wrapper call, [op, auto_commit, status]
    entry,     \* ghost: the session as the scope found it
    issued,    \* ghost: [rollback, commit]: statements issued on the session in this scope
    exitInfo,  \* ghost: how the scope ended and what its exit did
    recovery   \* ghost: the recovery steps taken since the exception now propagating was raised


txVars == <<sess, wrapper, tm, metrics, scope, lastOp, entry, issued, exitInfo,
            recovery>>

\* One ClientQuota with one limited quota type
\* (rate_limiting/quota_manager.py).
VARIABLES
    qcfg,      \* the QuotaLimit: [rollover_allowed, burst_allowance]
    usage,     \* the QuotaUsage of the limited quota type
    qnow,      \* the wall clock, in quota periods
    qLock,     \* holder of ClientQuota._lock: LockFree or a task
    qpc,       \* position of each task inside a ClientQuota method
    qres,      \* ghost: [op, result, amount, before, effective] of the task's last call
    global_usage,  \* QuotaManager.global_usage[quota_type].current_usage
    qcall,     \* ghost: the task's last enforce_quota call and the usage it found
    qreset     \* ghost: resets in a row in this period, their force, the state the first left

quotaVars == <<qcfg, usage, qnow, qLock, qpc, qres, global_usage, qcall, qreset>>

\* One CircuitBreaker (rate_limiting/circuit_breaker.py).
VARIABLES
    cbcfg,     \* the CircuitBreakerConfig
    cb,        \* the breaker: state, state_changed_at, failure_count, success_count,
               \* half_open_calls, and metrics.state_changes / recent_failures
    cbNow,     \* time.time(), in seconds
    callpc,    \* position of each caller inside CircuitBreaker.call
    openedAt,  \* ghost: when the circuit last entered open (NeverOpened before)
    lastCall,  \* ghost: the decision call() has just made, NoCall after any other step
    lastEvent  \* ghost: the call outcome or manual operation just handled, NoEvent
               \* after any other step

cbVars == <<cbcfg, cb, cbNow, callpc, openedAt, lastCall, lastEvent>>

\* The RateLimiter with its GlobalRateLimit and one ClientRateLimit
\* (rate_limiting/rate_limiter.py).
VARIABLES
    rlcfg,          \* the RateLimit rules: [limit, burst, glimit, gburst, concurrent, gconcurrent]
    rlNow,          \* time.time(), in ticks
    client_limits,  \* RateLimiter.client_limits: TRUE once the client's limiter exists
    cbucket,        \* the client's requests-per-second TokenBucket: [tokens, last_refill]
    cstats,         \* the client's [total_requests, blocked_requests, concurrent_requests]
    gbucket,        \* the global requests-per-second TokenBucket
    gstats,         \* the global [total_requests, blocked_requests, concurrent_requests]
    windowStart,    \* ghost: the instant from which granted checks are counted
    grantedSince,   \* ghost: check_rate_limits calls that returned at or after windowStart
    rlLast          \* ghost: the check that has just finished

rlVars == <<rlcfg, rlNow, client_limits, cbucket, cstats, gbucket, gstats,
            windowStart, grantedSince, rlLast>>

\* The SQLValidator (security/sql_injection.py).
VARIABLES
    vcfg,      \* the validator's configuration: [readonly_mode, strict_validation]
    vquery,    \* the query to validate, as the layers see it
    vresult    \* the SQLValidationResult of that query, with what each layer did

sqlVars == <<vcfg, vquery, vresult>>

\* One invocation of the execute_query tool (main.py).
VARIABLES
    hreq,      \* the request: whether the limiter and the quota manager would refuse its client
    hpc        \* position of the handler: idle, context, acquire, returned

handlerVars == <<hreq, hpc>>

\* The RequestContextManager (utils/request_context.py).
VARIABLES
    active_requests,     \* RequestContextManager._active_requests (request ids)
    completed_requests,  \* RequestContextManager._completed_requests (request ids)
    rctx,                \* the RequestContext of each request: [ended, errors, queries]
    rpc                  \* position of each request: new, running, left

rcVars == <<active_requests, completed_requests, rctx, rpc>>

\* The FairResourceAllocator (utils/resource_allocator.py).
VARIABLES
    strategy,             \* FairResourceAllocator.strategy
    ra,                   \* [pool_allocated: ResourcePool.allocated per type,
                          \*  allocated_resources: of each ClientAllocation, per type,
                          \*  recent: entries of each client in allocation_history]
    pending_requests,     \* FairResourceAllocator.pending_requests, the heap as a bag
    lastRequest           \* ghost: what the last step did (processed: the loop ran and nothing had expired), and the success flag a request_resources call returned

raVars == <<strategy, ra, pending_requests, lastRequest>>

\* Backoff and RetryWithBackoff (rate_limiting/backoff.py).
VARIABLES
    bcfg,             \* BackoffConfig: strategy, jitter_type, total_timeout (0 = None)
    attempt_count,    \* Backoff._attempt_count
    elapsed,          \* time.time() - Backoff._start_time, in ticks
    attempt,          \* loop variable of the retry wrapper
    last_exception,   \* last_exception of the retry wrapper
    retry_pc,         \* position of the retry wrapper
    error,            \* the exception that left the retry wrapper
    delay_sum,        \* ghost: sum of the delays __next__ returned
    calls,            \* ghost: number of times the wrapped function was called
    func_exception    \* ghost: last exception the wrapped function raised

boVars == <<bcfg, attempt_count, elapsed, attempt, last_exception, retry_pc,
            error, delay_sum, calls, func_exception>>

\* ConnectionMultiplexer (utils/connection_multiplexer.py).
VARIABLES
    active_leases,         \* ConnectionMultiplexer.active_leases (client_leases is its grouping by client)
    total_leases_created,  \* ConnectionMultiplexer.total_leases_created
    mpc,                   \* position of each task inside acquire_connection
    mclient,               \* client_id of the task's acquire_connection call
    yielded                   \* the connection acquire_connection yielded to the task's scope

muxVars == <<active_leases, total_leases_created, mpc, mclient, yielded>>

\* Requests that use the limiter's request slots
VARIABLES
    slot_pc               \* where every request is: idle, checked (check_rate_limits passed), in_scope (slot acquired)

vars == <<poolVars, txVars, quotaVars, cbVars, rlVars, sqlVars, handlerVars, rcVars, raVars, boVars, muxVars, slot_pc>>

\* Each component's actions leave the other components alone.
PoolFrame == UNCHANGED <<txVars, quotaVars, cbVars, rlVars, sqlVars, handlerVars, rcVars, raVars, boVars, muxVars, slot_pc>>
TxFrame == UNCHANGED <<poolVars, quotaVars, cbVars, rlVars, sqlVars, handlerVars, rcVars, raVars, boVars, muxVars, slot_pc>>
QuotaFrame == UNCHANGED <<poolVars, txVars, cbVars, rlVars, sqlVars, handlerVars, rcVars, raVars, boVars, muxVars, slot_pc>>
CBFrame == UNCHANGED <<poolVars, txVars, quotaVars, rlVars, sqlVars, handlerVars, rcVars, raVars, boVars, muxVars, slot_pc>>
RLFrame == UNCHANGED <<poolVars, txVars, quotaVars, cbVars, sqlVars, handlerVars, rcVars, raVars, boVars, muxVars, slot_pc>>
SQLFrame == UNCHANGED <<poolVars, txVars, quotaVars, cbVars, rlVars, handlerVars, rcVars, raVars, boVars, muxVars, slot_pc>>
HandlerFrame == UNCHANGED <<poolVars, txVars, quotaVars, cbVars, rlVars, rcVars, raVars, boVars, muxVars, slot_pc>>
RCFrame == UNCHANGED <<poolVars, txVars, quotaVars, cbVars, rlVars, sqlVars, handlerVars, raVars, boVars, muxVars, slot_pc>>
RAFrame == UNCHANGED <<poolVars, txVars, quotaVars, cbVars, rlVars, sqlVars, handlerVars, rcVars, boVars, muxVars, slot_pc>>
BOFrame == UNCHANGED <<poolVars, txVars, quotaVars, cbVars, rlVars, sqlVars, handlerVars, rcVars, raVars, muxVars, slot_pc>>
MuxFrame == UNCHANGED <<txVars, quotaVars, cbVars, rlVars, sqlVars, handlerVars, rcVars, raVars, boVars, slot_pc>>
SlotFrame == UNCHANGED <<poolVars, txVars, quotaVars, cbVars, sqlVars, handlerVars, rcVars, raVars, boVars, muxVars>>

(***************************************************************************)
(* Connection pool: utils/async_pool.py                                    *)
(***************************************************************************)

\* Number of concurrent request tasks using the pool.
NumTasks == 2
\* ConnectionPoolConfig.max_size and min_size, scaled down.
max_size == 1
min_size == 1
\* The longest wait for a released connection the pool is specified to
\* allow, and the longest the model follows, in rounds of 0.1 seconds.
AcquireTimeoutRounds == 1
MaxWaitRounds == 2

Tasks == 1..NumTasks
\* Identities of PooledConnection objects; one spare beyond max_size so that
\* a connection can be replaced while an old object is still referenced.
ConnIds == 1..(max_size + 1)
NoConn == 0
\* Holders of an asyncio.Lock: nobody, the health-check task, or a task id.
LockFree == 0
HealthChecker == 0 - 1
ExitKinds == {"normal", "exception", "cancelled"}

\* AsyncConnectionPool.initialize: min_size connections (creation failures are
\* logged and skipped, so any number up to min_size), health-check task started.
PoolInit ==
    /\ \E n \in 0..min_size : connections = 1..n
    /\ in_use = [c \in ConnIds |-> FALSE]
    /\ is_healthy = [c \in ConnIds |-> TRUE]
    /\ closed = FALSE
    /\ poolLock = LockFree
    /\ connLock = [c \in ConnIds |-> LockFree]
    /\ tpc = [t \in Tasks |-> "idle"]
    /\ tconn = [t \in Tasks |-> NoConn]
    /\ acquired = [t \in Tasks |-> 0]
    /\ released = [t \in Tasks |-> 0]
    /\ lastExit = [t \in Tasks |-> "none"]
    /\ hcpc = "sleep"
    /\ hcTodo = {}
    /\ hcRemove = {}
    /\ hcCur = NoConn
    /\ closepc = "idle"
    /\ waited = [t \in Tasks |-> 0]

\* Connection objects that are neither in the pool nor referenced by a task.
FreshIds == {c \in ConnIds : c \notin connections /\ \A t \in Tasks : tconn[t] # c}

\* The test of the scan loops of _get_connection, with the in_use test dropped.
AvailableIgnoringInUse(c) == is_healthy[c]

\* `not conn.in_use and conn.is_healthy` of _get_connection.
Available(c) == ~in_use[c] /\ is_healthy[c]

active_connection_count == Cardinality({c \in connections : in_use[c]})

\* _get_connection returned c; acquire() goes on to `await connection.mark_in_use()`
\* without suspending when the connection's lock is free.
EnterScope(t, c, lock) ==
    /\ poolLock' = lock
    /\ tconn' = [tconn EXCEPT ![t] = c]
    /\ acquired' = [acquired EXCEPT ![t] = 1]
    /\ IF connLock[c] = LockFree
         THEN /\ in_use' = [in_use EXCEPT ![c] = TRUE]
              /\ tpc' = [tpc EXCEPT ![t] = "in_scope"]
         ELSE /\ in_use' = in_use
              /\ tpc' = [tpc EXCEPT ![t] = "blocked_mark_in_use"]

\* _get_connection creating a connection whatever the size of the pool.
get_connection_at_any_size(t) ==
    IF \E c \in connections : Available(c)
      THEN /\ \E c \in connections :
                 /\ Available(c)
                 /\ EnterScope(t, c, LockFree)
           /\ UNCHANGED connections
      ELSE /\ poolLock' = t
           /\ tpc' = [tpc EXCEPT ![t] = "creating"]
           /\ acquired' = [acquired EXCEPT ![t] = 0]
           /\ UNCHANGED <<connections, in_use, tconn>>

\* _get_connection once the pool lock is obtained: first scan, then the
\* decision to create or to wait (both keep the pool lock across the await).
get_connection(t) ==
    IF \E c \in connections : Available(c)
      THEN /\ \E c \in connections :
                 /\ Available(c)
                 /\ EnterScope(t, c, LockFree)
           /\ UNCHANGED connections
      ELSE /\ poolLock' = t
           /\ tpc' = [tpc EXCEPT ![t] =
                        IF Cardinality(connections) < max_size
                          THEN "creating" ELSE "waiting"]
           /\ acquired' = [acquired EXCEPT ![t] = 0]
           /\ UNCHANGED <<connections, in_use, tconn>>

\* acquire(): `if self._closed: raise`, then _get_connection, which takes the
\* pool lock without suspending when it is free and queues for it otherwise.
acquire(t) ==
    /\ tpc[t] = "idle"
    /\ IF closed
         THEN /\ lastExit' = [lastExit EXCEPT ![t] = "pool_closed"]
              /\ UNCHANGED <<tpc, acquired, released, connections, in_use, tconn,
                             poolLock>>
         ELSE /\ released' = [released EXCEPT ![t] = 0]
              /\ lastExit' = [lastExit EXCEPT ![t] = "none"]
              /\ IF poolLock = LockFree
                   THEN get_connection(t)
                   ELSE /\ tpc' = [tpc EXCEPT ![t] = "get_conn"]
                        /\ acquired' = [acquired EXCEPT ![t] = 0]
                        /\ UNCHANGED <<connections, in_use, tconn, poolLock>>
    /\ UNCHANGED <<is_healthy, closed, connLock, hcpc, hcTodo, hcRemove, hcCur,
                   closepc, waited>>

\* A request task calls pool.acquire().
AcquireStart(t) ==
    /\ PoolFrame
    /\ acquire(t)

\* A task queued for the pool lock obtains it and runs _get_connection.
GetConnection(t) ==
    /\ PoolFrame
    /\ tpc[t] = "get_conn"
    /\ poolLock = LockFree
    /\ get_connection(t)
    /\ UNCHANGED <<is_healthy, closed, connLock, released, lastExit,
                   hcpc, hcTodo, hcRemove, hcCur, closepc, waited>>

\* `return await self._create_connection()` inside the pool lock: the driver
\* call ends with a new session, an error, or the task's cancellation.
CreateConnection(t) ==
    /\ PoolFrame
    /\ tpc[t] = "creating"
    /\ \/ /\ \E c \in FreshIds :
               /\ connections' = connections \cup {c}
               /\ is_healthy' = [is_healthy EXCEPT ![c] = TRUE]
               /\ EnterScope(t, c, LockFree)
          /\ UNCHANGED lastExit
       \/ /\ \E how \in {"exception", "cancelled"} :
               lastExit' = [lastExit EXCEPT ![t] = how]
          /\ tpc' = [tpc EXCEPT ![t] = "idle"]
          /\ poolLock' = LockFree
          /\ UNCHANGED <<connections, in_use, is_healthy, tconn, acquired>>
    /\ UNCHANGED <<closed, connLock, released, hcpc, hcTodo, hcRemove, hcCur,
                   closepc, waited>>

\* The `while True: await asyncio.sleep(0.1)` loop of _get_connection, one
\* wake-up, still holding the pool lock: the rescan finds a connection, or
\* finds none and the loop sleeps again; or the task is cancelled.
WaitForConnection(t) ==
    /\ PoolFrame
    /\ tpc[t] = "waiting"
    /\ \/ /\ \E c \in connections :
               /\ Available(c)
               /\ EnterScope(t, c, LockFree)
          /\ waited' = [waited EXCEPT ![t] = 0]
          /\ UNCHANGED lastExit
       \/ /\ ~\E c \in connections : Available(c)
          /\ waited[t] < MaxWaitRounds
          /\ waited' = [waited EXCEPT ![t] = @ + 1]
          /\ UNCHANGED <<tpc, lastExit, poolLock, in_use, tconn, acquired>>
       \/ /\ tpc' = [tpc EXCEPT ![t] = "idle"]
          /\ lastExit' = [lastExit EXCEPT ![t] = "cancelled"]
          /\ poolLock' = LockFree
          /\ waited' = [waited EXCEPT ![t] = 0]
          /\ UNCHANGED <<in_use, tconn, acquired>>
    /\ UNCHANGED <<connections, is_healthy, closed, connLock, released,
                   hcpc, hcTodo, hcRemove, hcCur, closepc>>

\* A scope exit that runs no `finally`: the release happens on normal exit only.
ReleaseOnNormalExitOnly(t, how) ==
    /\ tpc' = [tpc EXCEPT ![t] = "idle"]
    /\ tconn' = [tconn EXCEPT ![t] = NoConn]
    /\ lastExit' = [lastExit EXCEPT ![t] = how]
    /\ IF how = "normal"
         THEN /\ in_use' = [in_use EXCEPT ![tconn[t]] = FALSE]
              /\ released' = [released EXCEPT ![t] = @ + 1]
         ELSE UNCHANGED <<in_use, released>>

\* The `finally: await connection.mark_available()` of acquire().
ReleaseOnExit(t, how) ==
    /\ lastExit' = [lastExit EXCEPT ![t] = how]
    /\ IF connLock[tconn[t]] = LockFree
         THEN /\ in_use' = [in_use EXCEPT ![tconn[t]] = FALSE]
              /\ released' = [released EXCEPT ![t] = @ + 1]
              /\ tpc' = [tpc EXCEPT ![t] = "idle"]
              /\ tconn' = [tconn EXCEPT ![t] = NoConn]
         ELSE /\ tpc' = [tpc EXCEPT ![t] = "blocked_mark_available"]
              /\ UNCHANGED <<in_use, released, tconn>>

\* The body of an `async with pool.acquire()` scope ends: normally, with an
\* exception, or by cancellation.
ScopeExit(t) ==
    /\ PoolFrame
    /\ tpc[t] = "in_scope"
    /\ \E how \in ExitKinds : ReleaseOnExit(t, how)
    /\ UNCHANGED <<connections, is_healthy, closed, poolLock, connLock, acquired,
                   hcpc, hcTodo, hcRemove, hcCur, closepc, waited>>

\* _perform_health_checks from one suspension point to the next.  ret are the
\* idle connections should_retire() selects, skp the in-use ones the loop
\* passes over, nxt the next idle connection to health-check (NoConn: the loop
\* is over, the removals follow, then the refill to min_size).
HealthCheckSegment(todo, rem, healthy) ==
    \E ret \in SUBSET {c \in todo : ~in_use[c]} :
    \E skp \in SUBSET {c \in todo : in_use[c]} :
    \E nxt \in {NoConn} \cup {c \in todo \ ret : ~in_use[c]} :
        /\ is_healthy' = healthy
        /\ IF nxt # NoConn
             THEN /\ hcTodo' = todo \ (ret \cup skp \cup {nxt})
                  /\ hcRemove' = rem \cup ret
                  /\ hcCur' = nxt
                  /\ connLock' = [connLock EXCEPT ![nxt] = HealthChecker]
                  /\ hcpc' = "checking"
                  /\ poolLock' = HealthChecker
                  /\ UNCHANGED connections
             ELSE /\ ret \cup skp = todo
                  /\ hcTodo' = {}
                  /\ hcRemove' = {}
                  /\ hcCur' = NoConn
                  /\ connLock' = [c \in ConnIds |-> IF connLock[c] = HealthChecker THEN LockFree ELSE connLock[c]]
                  /\ connections' = connections \ (rem \cup ret)
                  /\ IF Cardinality(connections \ (rem \cup ret)) < min_size
                       THEN hcpc' = "refill" /\ poolLock' = HealthChecker
                       ELSE hcpc' = "sleep" /\ poolLock' = LockFree

\* _health_check_loop wakes up and _perform_health_checks takes the pool lock.
HealthCheckStart ==
    /\ PoolFrame
    /\ hcpc = "sleep"
    /\ ~closed
    /\ poolLock = LockFree
    /\ HealthCheckSegment(connections, {}, is_healthy)
    /\ UNCHANGED <<in_use, closed, tpc, tconn, acquired, released, lastExit, closepc,
                   waited>>

\* PooledConnection.health_check returns: healthy or not (an exception of the
\* driver counts as not healthy).
HealthCheckDone ==
    /\ PoolFrame
    /\ hcpc = "checking"
    /\ \E ok \in BOOLEAN :
         HealthCheckSegment(hcTodo,
                            IF ok THEN hcRemove ELSE hcRemove \cup {hcCur},
                            [is_healthy EXCEPT ![hcCur] = ok])
    /\ UNCHANGED <<in_use, closed, tpc, tconn, acquired, released, lastExit, closepc,
                   waited>>

\* `while len(self._connections) < min_size: await self._create_connection()`
\* with `except Exception: break`.
HealthCheckRefill ==
    /\ PoolFrame
    /\ hcpc = "refill"
    /\ \/ \E c \in FreshIds :
            /\ connections' = connections \cup {c}
            /\ is_healthy' = [is_healthy EXCEPT ![c] = TRUE]
            /\ in_use' = [in_use EXCEPT ![c] = FALSE]
            /\ IF Cardinality(connections) + 1 < min_size
                 THEN UNCHANGED <<hcpc, poolLock>>
                 ELSE hcpc' = "sleep" /\ poolLock' = LockFree
       \/ /\ hcpc' = "sleep"
          /\ poolLock' = LockFree
          /\ UNCHANGED <<connections, is_healthy, in_use>>
    /\ UNCHANGED <<closed, connLock, tpc, tconn, acquired, released, lastExit,
                   hcTodo, hcRemove, hcCur, closepc, waited>>

\* close(): set _closed, cancel the health-check task (it gives up its locks
\* at its suspension point) and wait for it.
CloseStart ==
    /\ PoolFrame
    /\ closepc = "idle"
    /\ closed' = TRUE
    /\ closepc' = "want_lock"
    /\ hcpc' = "stopped"
    /\ hcTodo' = {}
    /\ hcRemove' = {}
    /\ hcCur' = NoConn
    /\ connLock' = [c \in ConnIds |-> IF connLock[c] = HealthChecker THEN LockFree ELSE connLock[c]]
    /\ poolLock' = IF poolLock = HealthChecker THEN LockFree ELSE poolLock
    /\ UNCHANGED <<connections, in_use, is_healthy, tpc, tconn, acquired,
                   released, lastExit, waited>>

\* close(), under the pool lock: close every connection and clear the set.
CloseFinish ==
    /\ PoolFrame
    /\ closepc = "want_lock"
    /\ poolLock = LockFree
    /\ connections' = {}
    /\ closepc' = "done"
    /\ UNCHANGED <<in_use, is_healthy, closed, poolLock, connLock, tpc, tconn,
                   acquired, released, lastExit, hcpc, hcTodo, hcRemove, hcCur,
                   waited>>

PoolNext ==
    \/ \E t \in Tasks : AcquireStart(t)
    \/ \E t \in Tasks : GetConnection(t)
    \/ \E t \in Tasks : CreateConnection(t)
    \/ \E t \in Tasks : WaitForConnection(t)
    \/ \E t \in Tasks : ScopeExit(t)
    \/ HealthCheckStart
    \/ HealthCheckDone
    \/ HealthCheckRefill
    \/ CloseStart
    \/ CloseFinish


(***************************************************************************)
(* Claims about the pool                                                   *)
(***************************************************************************)

\* C1: every acquire() that returned a connection runs its release
\* (mark_available) exactly once, whether the scope ends normally, by an
\* exception or by cancellation; whenever no acquire scope is open, no
\* connection is marked in use (the in-use count is back at its start, 0).
C1_ReleaseExactlyOnce ==
    /\ \A t \in Tasks : released[t] <= acquired[t]
    /\ \A t \in Tasks : tpc[t] = "idle" => released[t] = acquired[t]
    /\ (\A t \in Tasks : tconn[t] = NoConn) =>
           (active_connection_count = 0 /\ \A c \in ConnIds : ~in_use[c])

\* A scope that held a connection was cancelled and has released it, while
\* another task is inside its own scope.
C1_Witness ==
    \E t, u \in Tasks :
        /\ tpc[t] = "idle" /\ lastExit[t] = "cancelled"
        /\ acquired[t] = 1 /\ released[t] = 1
        /\ tpc[u] = "in_scope"

\* C2: a connection that an acquire scope got from _get_connection is marked
\* in use, is held by that scope only, and is not under health check, under
\* every interleaving of acquirers, waiters, releases and the health check.
C2_ExclusiveBorrow ==
    \A t \in Tasks :
        tconn[t] # NoConn =>
            /\ tpc[t] = "in_scope"
            /\ in_use[tconn[t]]
            /\ hcCur # tconn[t]
            /\ \A u \in Tasks \ {t} : tconn[u] # tconn[t]

\* One task holds a connection while another waits for one in the polling
\* loop of _get_connection.
C2_Witness ==
    \E t, u \in Tasks : tpc[t] = "in_scope" /\ tpc[u] = "waiting"

\* C22: an acquire that finds no healthy connection free with the pool at
\* max_size waits at most acquire_timeout for a release (and then fails with
\* PoolExhausted); it never waits longer.
C22_AcquireWaitIsBounded ==
    \A t \in Tasks : waited[t] <= AcquireTimeoutRounds

\* C23: the pool never owns more than max_size connections, whatever the
\* interleaving of acquirers, releases and health-check maintenance.
C23_PoolSizeBounded == Cardinality(connections) <= max_size

\* The health check refills the pool to min_size while an acquirer stands
\* at the pool lock.
C23_Witness ==
    /\ hcpc = "refill"
    /\ \E t \in Tasks : tpc[t] = "get_conn"

\* C24: once close() has been called, no acquire call gets a connection and
\* none adds a connection to the pool, calls already under way included.
C24_ClosedPoolGivesNothing ==
    [][closed => /\ \A t \in Tasks : acquired'[t] <= acquired[t]
                 /\ connections' \subseteq connections]_vars

\* C31: the pool lock is not held across driver I/O (opening a session,
\* a health check, the refill) nor across the wait for a free connection:
\* a task that is creating or waiting, and a health check under way, do
\* not hold the lock.
C31_PoolLockOnlyAroundBookkeeping ==
    /\ \A t \in Tasks : tpc[t] \in {"creating", "waiting"} => poolLock # t
    /\ hcpc \in {"checking", "refill"} => poolLock # HealthChecker


(***************************************************************************)
(* Isolated and transactional wrappers on one pooled session:              *)
(* utils/async_database.py, utils/transaction_manager.py,                  *)
(* utils/request_context.py                                                *)
(***************************************************************************)

\* Number of wrapper calls a handler makes inside one scope.
MaxOps == 2

\* Names the session can be switched to; "NULL" is a session without a
\* current database or schema.  USE DATABASE makes PUBLIC the current schema.
Databases == {"DB0", "DB1"}
Schemas == {"PUBLIC", "S1"}
StmtOutcomes == {"ok", "err", "cancelled"}

NoTm == [in_transaction |-> FALSE, autocommit_original |-> {}]
ZeroMetrics == [transaction_operations |-> 0, transaction_commits |-> 0,
                transaction_rollbacks |-> 0]
NoOp == [op |-> "none", auto_commit |-> TRUE, status |-> "ok"]
NoExit == [how |-> "none", kind |-> "none", tmInTx |-> FALSE, savedAutocommit |-> {},
           rollback |-> FALSE, commit |-> FALSE, restoreFailed |-> FALSE,
           captureFailed |-> FALSE]

\* A new session of the pool: its configured database/schema (or none), the
\* driver's default autocommit, no transaction.
TxInit ==
    /\ sess \in {[db |-> d, schema |-> c, autocommit |-> TRUE, inTx |-> FALSE] :
                    d \in {"NULL", "DB0"}, c \in {"NULL", "PUBLIC", "S1"}}
    /\ sess.db = "NULL" <=> sess.schema = "NULL"
    /\ wrapper = [kind |-> "none", original_database |-> "None",
                  original_schema |-> "None", context_changed |-> FALSE]
    /\ tm = NoTm
    /\ metrics = ZeroMetrics
    /\ scope = [phase |-> "pooled", opCount |-> 0]
    /\ lastOp = NoOp
    /\ entry = sess
    /\ issued = [rollback |-> FALSE, commit |-> FALSE]
    /\ exitInfo = NoExit
    /\ recovery = <<>>

\* The session after a statement that completed on the worker.
UseDatabaseEffect(s, database) == [s EXCEPT !.db = database, !.schema = "PUBLIC"]
UseSchemaEffect(s, schema) == [s EXCEPT !.schema = schema]

\* AsyncDatabaseOperations.get_current_context: `result[0] or "Unknown"`.
get_current_context(s) ==
    <<IF s.db = "NULL" THEN "Unknown" ELSE s.db,
      IF s.schema = "NULL" THEN "Unknown" ELSE s.schema>>

\* IsolatedDatabaseOperations.__aenter__: the captured (database, schema);
\* an exception of the capture query is logged and leaves both None.
CaptureOriginalContext(s, o) ==
    IF o = "ok" THEN get_current_context(s) ELSE <<"None", "None">>

\* IsolatedDatabaseOperations._restore_original_context under the test of
\* __aexit__ (`self._context_changed and self._original_database`); o1 and o2
\* are the outcomes of the two USE statements, an error ends the restore and
\* is logged by __aexit__.
RestoreOriginalContext(w, s, o1, o2) ==
    IF ~(w.context_changed /\ w.original_database # "None")
         \/ w.original_database = "Unknown"
      THEN [sess |-> s, failed |-> FALSE]
    ELSE IF o1 = "err"
      THEN [sess |-> s, failed |-> TRUE]
    ELSE LET s1 == UseDatabaseEffect(s, w.original_database)
         IN IF w.original_schema \in {"None", "Unknown"}
              THEN [sess |-> s1, failed |-> FALSE]
            ELSE IF o2 = "err"
              THEN [sess |-> s1, failed |-> TRUE]
            ELSE [sess |-> UseSchemaEffect(s1, w.original_schema), failed |-> FALSE]

\* Whether __aexit__ issues the USE statements of the restore.
RestoreRuns(w) ==
    w.context_changed /\ w.original_database \notin {"None", "Unknown"}

StatusOf(o) == IF o = "ok" THEN "ok" ELSE IF o = "err" THEN "raised" ELSE "cancelled"

\* TransactionManager.begin_transaction; o is the outcome of BEGIN.  A
\* cancelled await leaves the statement to complete on the worker.
begin_transaction(m, s, o) ==
    IF m.in_transaction
      THEN [tm |-> m, sess |-> s, res |-> "ok"]
      ELSE LET m1 == [m EXCEPT !.autocommit_original = {s.autocommit}]
               s1 == [s EXCEPT !.autocommit = FALSE]
           IN IF o = "err"
                THEN [tm |-> m1, sess |-> s1, res |-> "raised"]
              ELSE IF o = "cancelled"
                THEN [tm |-> m1, sess |-> [s1 EXCEPT !.inTx = TRUE], res |-> "cancelled"]
              ELSE [tm |-> [m1 EXCEPT !.in_transaction = TRUE],
                    sess |-> [s1 EXCEPT !.inTx = TRUE], res |-> "ok"]

\* TransactionManager._cleanup_transaction.
cleanup_transaction(m, s) ==
    [tm |-> NoTm,
     sess |-> IF m.autocommit_original # {}
                THEN [s EXCEPT !.autocommit = CHOOSE b \in m.autocommit_original : TRUE]
                ELSE s]

\* TransactionManager.commit_transaction and rollback_transaction: the
\* statement (outcome o), then the cleanup in `finally`.
end_transaction(m, s, o) ==
    IF ~m.in_transaction
      THEN [tm |-> m, sess |-> s, res |-> "ok", issued |-> FALSE]
      ELSE LET c == cleanup_transaction(m, IF o = "err" THEN s ELSE [s EXCEPT !.inTx = FALSE])
           IN [tm |-> c.tm, sess |-> c.sess, res |-> StatusOf(o), issued |-> TRUE]

commit_transaction(m, s, o) == end_transaction(m, s, o)
rollback_transaction(m, s, o) == end_transaction(m, s, o)

\* The transaction counters are not touched by execute_query_isolated.
QueryMetrics(mt, o) == mt

\* execute_with_transaction over transaction_scope, which makes its own
\* TransactionManager: ob, oq, oe are the outcomes of BEGIN, of the query and
\* of the closing COMMIT or ROLLBACK.
execute_with_transaction(s, mt, ac, ob, oq, oe) ==
    LET mt1 == [mt EXCEPT !.transaction_operations = @ + 1]
        b == IF ac THEN [tm |-> NoTm, sess |-> s, res |-> "ok"]
                   ELSE begin_transaction(NoTm, s, ob)
        mq == QueryMetrics(mt1, oq)
        rolledBack(m) == [m EXCEPT !.transaction_rollbacks = @ + 1]
    IN  IF b.res = "raised"
          THEN [sess |-> b.sess, metrics |-> rolledBack(mt1), res |-> "raised",
                rollback |-> FALSE, commit |-> FALSE]
        ELSE IF b.res = "cancelled"
          THEN [sess |-> b.sess, metrics |-> mt1, res |-> "cancelled",
                rollback |-> FALSE, commit |-> FALSE]
        ELSE IF oq = "cancelled"
          THEN [sess |-> b.sess, metrics |-> mq, res |-> "cancelled",
                rollback |-> FALSE, commit |-> FALSE]
        ELSE IF oq = "err"
          THEN IF ac
                 THEN [sess |-> b.sess, metrics |-> mq, res |-> "raised",
                       rollback |-> FALSE, commit |-> FALSE]
                 ELSE LET r == rollback_transaction(b.tm, b.sess, oe)
                      IN [sess |-> r.sess,
                          metrics |-> IF r.res = "cancelled" THEN mq ELSE rolledBack(mq),
                          res |-> IF r.res = "cancelled" THEN "cancelled" ELSE "raised",
                          rollback |-> r.issued, commit |-> FALSE]
        ELSE IF ac
          THEN [sess |-> b.sess, metrics |-> mq, res |-> "ok",
                rollback |-> FALSE, commit |-> FALSE]
        ELSE LET mc == IF b.tm.in_transaction
                         THEN [mq EXCEPT !.transaction_commits = @ + 1] ELSE mq
                 c == commit_transaction(b.tm, b.sess, oe)
                 \* a failed COMMIT reaches `except Exception` of transaction_scope
                 r == rollback_transaction(c.tm, c.sess, "ok")
             IN IF c.res = "raised"
                  THEN [sess |-> r.sess, metrics |-> rolledBack(mc), res |-> "raised",
                        rollback |-> r.issued, commit |-> c.issued]
                  ELSE [sess |-> c.sess, metrics |-> mc, res |-> c.res,
                        rollback |-> FALSE, commit |-> c.issued]

\* get_isolated_database_ops / get_transactional_database_ops up to the yield:
\* the connection is acquired and __aenter__ captures the context (outcome o).
EnterWrapper(kind, o) ==
    /\ TxFrame
    /\ scope.phase = "pooled"
    /\ LET ctx == CaptureOriginalContext(sess, o)
       IN wrapper' = [kind |-> kind, original_database |-> ctx[1],
                      original_schema |-> ctx[2], context_changed |-> FALSE]
    /\ tm' = NoTm
    /\ metrics' = ZeroMetrics
    /\ scope' = [phase |-> "active", opCount |-> 0]
    /\ lastOp' = NoOp
    /\ entry' = sess
    /\ issued' = [rollback |-> FALSE, commit |-> FALSE]
    /\ exitInfo' = [NoExit EXCEPT !.captureFailed = (o = "err")]
    /\ recovery' = <<>>
    /\ UNCHANGED sess

\* The handler can make another wrapper call: it is inside the scope, was not
\* cancelled, and the model's bound on calls is not used up.
CanCall == scope.phase = "active" /\ lastOp.status # "cancelled" /\ scope.opCount < MaxOps

\* steps: what the call itself did about its exception before raising it.
Called(op, ac, status, steps) ==
    /\ scope' = [scope EXCEPT !.opCount = @ + 1]
    /\ lastOp' = [op |-> op, auto_commit |-> ac, status |-> status]
    /\ recovery' = IF status = "raised" THEN steps ELSE <<>>
    /\ UNCHANGED <<entry, exitInfo>>

\* use_database_isolated.
UseDatabaseIsolated(database, o) ==
    /\ TxFrame
    /\ CanCall
    /\ sess' = IF o = "err" THEN sess ELSE UseDatabaseEffect(sess, database)
    /\ wrapper' = IF o = "ok" THEN [wrapper EXCEPT !.context_changed = TRUE] ELSE wrapper
    /\ Called("use_database_isolated", TRUE, StatusOf(o), <<>>)
    /\ UNCHANGED <<tm, metrics, issued>>

\* use_schema_isolated; USE SCHEMA fails on a session without a database.
UseSchemaIsolated(schema, o) ==
    /\ TxFrame
    /\ CanCall
    /\ LET eo == IF sess.db = "NULL" THEN "err" ELSE o
       IN /\ sess' = IF eo = "err" THEN sess ELSE UseSchemaEffect(sess, schema)
          /\ wrapper' = IF eo = "ok" THEN [wrapper EXCEPT !.context_changed = TRUE] ELSE wrapper
          /\ Called("use_schema_isolated", TRUE,
                    IF o = "cancelled" THEN "cancelled" ELSE StatusOf(eo), <<>>)
    /\ UNCHANGED <<tm, metrics, issued>>

\* execute_query_isolated.
ExecuteQueryIsolated(o) ==
    /\ TxFrame
    /\ CanCall
    /\ metrics' = QueryMetrics(metrics, o)
    /\ Called("execute_query_isolated", TRUE, StatusOf(o), <<"add_error">>)
    /\ UNCHANGED <<sess, wrapper, tm, issued>>

\* TransactionalDatabaseOperations.execute_with_transaction.  An exception of
\* the query passes the `except` of execute_query_isolated (add_error) before
\* that of transaction_scope (rollback).
ExecuteWithTransaction(ac, ob, oq, oe) ==
    /\ TxFrame
    /\ CanCall
    /\ wrapper.kind = "transactional"
    /\ LET r == execute_with_transaction(sess, metrics, ac, ob, oq, oe)
       IN /\ sess' = r.sess
          /\ metrics' = r.metrics
          /\ issued' = [rollback |-> issued.rollback \/ r.rollback,
                        commit |-> issued.commit \/ r.commit]
          /\ Called("execute_with_transaction", ac, r.res,
                    (IF (ac \/ ob = "ok") /\ oq = "err"
                       THEN <<"add_error">> ELSE <<>>)
                    \o (IF r.rollback THEN <<"rollback">> ELSE <<>>))
    /\ UNCHANGED <<wrapper, tm>>

\* TransactionalDatabaseOperations.begin_explicit_transaction.
BeginExplicitTransaction(o) ==
    /\ TxFrame
    /\ CanCall
    /\ wrapper.kind = "transactional"
    /\ LET r == begin_transaction(tm, sess, o)
       IN /\ tm' = r.tm
          /\ sess' = r.sess
          /\ Called("begin_explicit_transaction", FALSE, r.res, <<>>)
    /\ metrics' = [metrics EXCEPT !.transaction_operations = @ + 1]
    /\ UNCHANGED <<wrapper, issued>>

\* TransactionalDatabaseOperations.commit_transaction.
CommitTransaction(o) ==
    /\ TxFrame
    /\ CanCall
    /\ wrapper.kind = "transactional"
    /\ LET r == commit_transaction(tm, sess, o)
       IN /\ tm' = r.tm
          /\ sess' = r.sess
          /\ metrics' = IF r.res = "ok"
                          THEN [metrics EXCEPT !.transaction_commits = @ + 1]
                          ELSE metrics
          /\ issued' = [issued EXCEPT !.commit = @ \/ r.issued]
          /\ Called("commit_transaction", FALSE, r.res, <<>>)
    /\ UNCHANGED wrapper

\* TransactionalDatabaseOperations.rollback_transaction.
RollbackTransaction(o) ==
    /\ TxFrame
    /\ CanCall
    /\ wrapper.kind = "transactional"
    /\ LET r == rollback_transaction(tm, sess, o)
       IN /\ tm' = r.tm
          /\ sess' = r.sess
          /\ metrics' = IF r.res = "ok"
                          THEN [metrics EXCEPT !.transaction_rollbacks = @ + 1]
                          ELSE metrics
          /\ issued' = [issued EXCEPT !.rollback = @ \/ r.issued]
          /\ Called("rollback_transaction", FALSE, r.res, <<>>)
    /\ UNCHANGED wrapper

\* The scope ends (normally, by an exception that escapes it, or by
\* cancellation): IsolatedDatabaseOperations.__aexit__ restores the context
\* and cleans up, then pool.acquire() releases the connection.  The
\* transactional wrapper has no __aexit__ of its own.
ExitWrapper(how, o1, o2) ==
    /\ TxFrame
    /\ scope.phase = "active"
    /\ lastOp.status = "cancelled" => how = "cancelled"
    /\ LET r == RestoreOriginalContext(wrapper, sess, o1, o2)
       IN /\ sess' = r.sess
          /\ exitInfo' = [exitInfo EXCEPT !.how = how,
                                          !.kind = wrapper.kind,
                                          !.tmInTx = tm.in_transaction,
                                          !.savedAutocommit = tm.autocommit_original,
                                          !.restoreFailed = r.failed]
          /\ recovery' =
                (IF how = "exception" /\ lastOp.status = "raised"
                   THEN recovery ELSE <<>>)
                \o (IF RestoreRuns(wrapper) THEN <<"restore">> ELSE <<>>)
                \o <<"release">>
    /\ scope' = [scope EXCEPT !.phase = "pooled"]
    /\ wrapper' = [kind |-> "none", original_database |-> "None",
                   original_schema |-> "None", context_changed |-> FALSE]
    /\ tm' = NoTm
    /\ UNCHANGED <<metrics, lastOp, entry, issued>>

TxNext ==
    \/ \E kind \in {"isolated", "transactional"}, o \in {"ok", "err"} : EnterWrapper(kind, o)
    \/ \E d \in Databases, o \in StmtOutcomes : UseDatabaseIsolated(d, o)
    \/ \E c \in Schemas, o \in StmtOutcomes : UseSchemaIsolated(c, o)
    \/ \E o \in StmtOutcomes : ExecuteQueryIsolated(o)
    \/ \E ac \in BOOLEAN, ob, oq, oe \in StmtOutcomes : ExecuteWithTransaction(ac, ob, oq, oe)
    \/ \E o \in StmtOutcomes : BeginExplicitTransaction(o)
    \/ \E o \in StmtOutcomes : CommitTransaction(o)
    \/ \E o \in StmtOutcomes : RollbackTransaction(o)
    \/ \E how \in ExitKinds, o1, o2 \in {"ok", "err"} : ExitWrapper(how, o1, o2)

(***************************************************************************)
(* Claims about the wrappers                                               *)
(***************************************************************************)

\* C3: a connection that entered an isolated-wrapper scope at (D0, S0) is
\* back in the pool at (D0, S0) after the scope ended normally or with an
\* exception, provided the capture query and the restore statements did not
\* fail (the connection survived).
C3_ContextRestored ==
    (scope.phase = "pooled" /\ exitInfo.kind = "isolated"
        /\ exitInfo.how \in {"normal", "exception"}
        /\ ~exitInfo.captureFailed /\ ~exitInfo.restoreFailed)
    => (sess.db = entry.db /\ sess.schema = entry.schema)

\* C4: when an exception escapes a transactional scope whose explicit
\* transaction is in flight, a ROLLBACK has been issued, the transaction is
\* over and auto-commit is back at the saved value when the connection is
\* released.
C4_RollbackOnException ==
    (scope.phase = "pooled" /\ exitInfo.kind = "transactional"
        /\ exitInfo.how = "exception" /\ exitInfo.tmInTx)
    => (issued.rollback /\ ~sess.inTx /\ exitInfo.savedAutocommit = {sess.autocommit})

\* C5: a scope that was cancelled (entered on a session with a database, no
\* open transaction, context captured, restore statements succeeding) leaves
\* the connection at its original database/schema and with no open
\* transaction.
C5_CancelCleansUp ==
    (scope.phase = "pooled" /\ exitInfo.how = "cancelled"
        /\ entry.db # "NULL" /\ ~entry.inTx
        /\ ~exitInfo.captureFailed /\ ~exitInfo.restoreFailed)
    => (sess.db = entry.db /\ sess.schema = entry.schema /\ ~sess.inTx)

\* C6: when a transactional scope ends without exception while the explicit
\* transaction it began is in flight, the transaction has been committed and
\* auto-commit is back at the saved value when the connection is released.
C6_CommitOnNormalExit ==
    (scope.phase = "pooled" /\ exitInfo.kind = "transactional"
        /\ exitInfo.how = "normal" /\ exitInfo.tmInTx)
    => (issued.commit /\ ~sess.inTx /\ exitInfo.savedAutocommit = {sess.autocommit})

\* C7: scenario S5: on a session with auto-commit true, the scope runs
\* execute_with_transaction('SELECT 1', auto_commit=false), which returns,
\* and then raises: a ROLLBACK was issued, the released session has
\* auto-commit true and the request context counts one rollback.
C7_ScenarioS5 ==
    (scope.phase = "pooled" /\ entry.autocommit /\ ~entry.inTx
        /\ scope.opCount = 1
        /\ lastOp = [op |-> "execute_with_transaction", auto_commit |-> FALSE,
                     status |-> "ok"]
        /\ exitInfo.how = "exception")
    => (issued.rollback /\ sess.autocommit /\ metrics.transaction_rollbacks = 1)

\* C8: in every request scope, after every sequence of transactional-wrapper
\* calls, transaction_commits + transaction_rollbacks <= transaction_operations.
C8_TransactionCounters ==
    metrics.transaction_commits + metrics.transaction_rollbacks
        <= metrics.transaction_operations

\* The place of a recovery step in the order rollback, restore context,
\* add-error, release.
RecoveryRank(step) ==
    CASE step = "rollback" -> 1
      [] step = "restore" -> 2
      [] step = "add_error" -> 3
      [] step = "release" -> 4

\* C32: when an exception has left an isolated/transactional scope, the
\* recovery steps were taken in the order rollback (if a transaction was in
\* flight), restore of the database/schema context, add-error to the request
\* context, release of the connection.
C32_RecoveryOrder ==
    (scope.phase = "pooled" /\ exitInfo.how = "exception") =>
        /\ \A i, j \in 1..Len(recovery) :
               i < j => RecoveryRank(recovery[i]) < RecoveryRank(recovery[j])
        /\ \E i \in 1..Len(recovery) : recovery[i] = "add_error"
        /\ \E i \in 1..Len(recovery) : recovery[i] = "release"
        /\ exitInfo.tmInTx => \E i \in 1..Len(recovery) : recovery[i] = "rollback"

\* C33: the session's auto-commit setting after an execute_with_transaction
\* call that returned or raised equals its value before the call, and a
\* connection released by a transactional scope has the auto-commit setting
\* it was borrowed with.
C33_AutoCommitRestored ==
    /\ []((scope.phase = "pooled" /\ exitInfo.kind = "transactional"
              /\ exitInfo.how \in {"normal", "exception"})
            => sess.autocommit = entry.autocommit)
    /\ [][(/\ lastOp'.op = "execute_with_transaction"
           /\ scope'.opCount = scope.opCount + 1
           /\ lastOp'.status \in {"ok", "raised"})
          => sess'.autocommit = sess.autocommit]_vars


(***************************************************************************)
(* Client quota: rate_limiting/quota_manager.py                            *)
(***************************************************************************)

\* Number of concurrent tasks calling into the quota manager.
NumQuotaTasks == 2
\* QuotaLimit.limit and the largest QuotaLimit.burst_allowance of the limited
\* quota type.
QuotaLimitValue == 2
BurstAllowance == 2
\* Largest amount of one consume / check call.
MaxAmount == 2
\* The quota periods (hours of an HOURLY limit, days of a DAILY one) the
\* clock runs through.
MaxPeriod == 1
\* QuotaManager.global_quotas[quota_type].limit.
GlobalQuotaLimit == 3

QuotaTasks == 1..NumQuotaTasks
Amounts == 1..MaxAmount

\* QuotaLimit.__post_init__: soft_limit = int(limit * 0.8).
soft_limit == (QuotaLimitValue * 8) \div 10

MaxOf(a, b) == IF a >= b THEN a ELSE b
MinOf(a, b) == IF a <= b THEN a ELSE b

\* QuotaUsage(quota_type) as the dataclass defaults build it at time `now`.
NewQuotaUsage(now) ==
    [current_usage |-> 0, peak_usage |-> 0, last_reset |-> now,
     warning_triggered |-> FALSE, limit_exceeded |-> FALSE, burst_used |-> 0,
     rollover_balance |-> 0]

NoQuotaResult ==
    [op |-> "none", result |-> "none", amount |-> 0, before |-> 0, effective |-> 0]

\* No enforce_quota wrapper of the task has run yet.
NoGuardedCall ==
    [phase |-> "none", client_before |-> 0, global_before |-> 0, alone |-> TRUE]

\* The fields of a QuotaUsage that a reset sets, last_reset aside.
QuotaState(u) ==
    [current_usage |-> u.current_usage, rollover_balance |-> u.rollover_balance,
     burst_used |-> u.burst_used, warning_triggered |-> u.warning_triggered,
     limit_exceeded |-> u.limit_exceeded]

NoReset == [count |-> 0, force |-> FALSE, first |-> QuotaState(NewQuotaUsage(0))]

QuotaInit ==
    /\ qcfg \in [rollover_allowed : BOOLEAN, burst_allowance : {0, BurstAllowance}]
    /\ usage = NewQuotaUsage(0)
    /\ global_usage = 0
    /\ qnow = 0
    /\ qLock = LockFree
    /\ qpc = [t \in QuotaTasks |-> "idle"]
    /\ qres = [t \in QuotaTasks |-> NoQuotaResult]
    /\ qcall = [t \in QuotaTasks |-> NoGuardedCall]
    /\ qreset = NoReset

\* The period test of _check_reset_needed for an HOURLY or DAILY limit: the
\* hour (or the date) of now differs from that of usage.last_reset.
reset_needed(u, now) == now # u.last_reset

\* The body of reset_quota under the lock.
reset_quota_body(u, force, now) ==
    LET unused_quota == MaxOf(0, QuotaLimitValue - u.current_usage)
        rollover_amount == MinOf(unused_quota, QuotaLimitValue \div 2)
    IN [u EXCEPT !.rollover_balance =
                     IF qcfg.rollover_allowed /\ ~force THEN rollover_amount ELSE 0,
                 !.current_usage = 0,
                 !.peak_usage = 0,
                 !.burst_used = 0,
                 !.warning_triggered = FALSE,
                 !.limit_exceeded = FALSE,
                 !.last_reset = now]

\* `limit.limit + usage.rollover_balance + (limit.burst_allowance - usage.burst_used)`
available_quota(u) ==
    QuotaLimitValue + u.rollover_balance + (qcfg.burst_allowance - u.burst_used)

\* The body of consume_quota after _check_reset_needed returned.
consume_quota_body(u, amount) ==
    IF u.current_usage + amount <= available_quota(u)
      THEN LET cu == u.current_usage + amount
               base == QuotaLimitValue + u.rollover_balance
           IN [usage |-> [u EXCEPT !.current_usage = cu,
                                   !.peak_usage = MaxOf(u.peak_usage, cu),
                                   !.burst_used = IF cu > base THEN cu - base ELSE @,
                                   !.warning_triggered = @ \/ cu >= soft_limit],
               result |-> "True"]
      ELSE [usage |-> [u EXCEPT !.limit_exceeded = TRUE],
            result |-> "QuotaExceededError"]

\* What a call records: the operation, its amount, and the usage and the
\* nominal allowance (limit + rollover + burst allowance) it found.
QuotaResult(op, amount, result) ==
    [op |-> op, result |-> result, amount |-> amount,
     before |-> usage.current_usage,
     effective |-> QuotaLimitValue + usage.rollover_balance + qcfg.burst_allowance]

\* The ghost records once task t has made a call: what the calls of the
\* other tasks found is forgotten.
Forget(t) ==
    [o \in QuotaTasks |->
        IF o = t THEN qres[o]
        ELSE [qres[o] EXCEPT !.amount = 0, !.before = 0, !.effective = 0]]

\* The guarded calls once another call was made: a finished one is
\* forgotten, one still inside its function learns whether the usage changed.
Disturbed(changed) ==
    [o \in QuotaTasks |->
        IF qcall[o].phase # "in_func" THEN NoGuardedCall
        ELSE IF changed
          THEN [qcall[o] EXCEPT !.alone = FALSE, !.client_before = 0,
                                !.global_before = 0]
        ELSE qcall[o]]

\* `async with self._lock` at the head of a method: the task goes on when the
\* lock is free and suspends behind the holder otherwise.
QuotaLockBusy(t, op, amount) ==
    /\ qLock # LockFree
    /\ qpc' = [qpc EXCEPT ![t] = "lock_wait"]
    /\ qres' = [Forget(t) EXCEPT ![t] = QuotaResult(op, amount, "none")]
    /\ qreset' = NoReset
    /\ UNCHANGED <<qcfg, usage, qnow, qLock>>

\* _check_reset_needed found the period over and awaits reset_quota, whose
\* `async with self._lock` waits for the lock the caller holds.
QuotaResetUnderLock(t, op, amount) ==
    /\ qLock' = t
    /\ qpc' = [qpc EXCEPT ![t] = "reset_lock_wait"]
    /\ qres' = [Forget(t) EXCEPT ![t] = QuotaResult(op, amount, "none")]
    /\ qreset' = NoReset
    /\ UNCHANGED <<qcfg, usage, qnow>>

QuotaReturn(t, op, amount, u, result) ==
    /\ usage' = u
    /\ qres' = [Forget(t) EXCEPT ![t] = QuotaResult(op, amount, result)]
    /\ qreset' = NoReset
    /\ UNCHANGED <<qcfg, qnow, qLock, qpc>>

\* ClientQuota.consume_quota(quota_type, amount); `limited` tells whether
\* quota_type is in quota_limits.
ConsumeQuota(t, limited, amount) ==
    /\ QuotaFrame
    /\ qpc[t] = "idle"
    /\ UNCHANGED global_usage
    /\ \/ /\ QuotaLockBusy(t, "consume_quota", amount)
          /\ qcall' = Disturbed(FALSE)
       \/ /\ qLock = LockFree
          /\ IF ~limited
               THEN /\ QuotaReturn(t, "consume_quota", 0, usage, "True")
                    /\ qcall' = Disturbed(FALSE)
             ELSE IF reset_needed(usage, qnow)
               THEN /\ QuotaResetUnderLock(t, "consume_quota", amount)
                    /\ qcall' = Disturbed(FALSE)
             ELSE LET r == consume_quota_body(usage, amount)
                  IN /\ QuotaReturn(t, "consume_quota", amount, r.usage, r.result)
                     /\ qcall' = Disturbed(r.usage # usage)

\* ClientQuota.check_quota_available(quota_type, amount).
CheckQuotaAvailable(t, limited, amount) ==
    /\ QuotaFrame
    /\ qpc[t] = "idle"
    /\ UNCHANGED global_usage
    /\ qcall' = Disturbed(FALSE)
    /\ \/ QuotaLockBusy(t, "check_quota_available", amount)
       \/ /\ qLock = LockFree
          /\ IF ~limited
               THEN QuotaReturn(t, "check_quota_available", 0, usage, "True")
             ELSE IF reset_needed(usage, qnow)
               THEN QuotaResetUnderLock(t, "check_quota_available", amount)
             ELSE QuotaReturn(t, "check_quota_available", amount, usage,
                      IF available_quota(usage) - usage.current_usage >= amount
                        THEN "True" ELSE "False")

\* ClientQuota.get_quota_status(quota_type): with a quota type, the status of
\* that type; with None, the loop over quota_limits that awaits
\* self.get_quota_status(qt) while the lock is held.
GetQuotaStatus(t, which) ==
    /\ QuotaFrame
    /\ qpc[t] = "idle"
    /\ UNCHANGED global_usage
    /\ qcall' = Disturbed(FALSE)
    /\ \/ QuotaLockBusy(t, "get_quota_status", 0)
       \/ /\ qLock = LockFree
          /\ IF which = "unlimited"
               THEN QuotaReturn(t, "get_quota_status", 0, usage, "error")
             ELSE IF which = "all"
               THEN /\ qLock' = t
                    /\ qpc' = [qpc EXCEPT ![t] = "status_lock_wait"]
                    /\ qres' = [Forget(t) EXCEPT ![t] =
                                    QuotaResult("get_quota_status", 0, "none")]
                    /\ qreset' = NoReset
                    /\ UNCHANGED <<qcfg, usage, qnow>>
             ELSE IF reset_needed(usage, qnow)
               THEN QuotaResetUnderLock(t, "get_quota_status", 0)
             ELSE QuotaReturn(t, "get_quota_status", 0, usage, "status")

\* ClientQuota.reset_quota(quota_type, force) called from outside the class;
\* QuotaManager.reset_client_quotas calls it with force = True.
ResetQuota(t, limited, force) ==
    /\ QuotaFrame
    /\ qpc[t] = "idle"
    /\ UNCHANGED global_usage
    /\ \/ /\ QuotaLockBusy(t, "reset_quota", 0)
          /\ qcall' = Disturbed(FALSE)
       \/ /\ qLock = LockFree
          /\ LET u == IF limited THEN reset_quota_body(usage, force, qnow) ELSE usage
             IN /\ usage' = u
                /\ qres' = [Forget(t) EXCEPT ![t] = QuotaResult("reset_quota", 0, "None")]
                /\ qreset' = IF ~limited THEN NoReset
                             ELSE IF qreset.count > 0 /\ qreset.force = force
                               THEN [qreset EXCEPT !.count = 2]
                             ELSE [count |-> 1, force |-> force, first |-> QuotaState(u)]
                /\ qcall' = Disturbed(u # usage)
          /\ UNCHANGED <<qcfg, qnow, qLock, qpc>>

\* The enforce_quota wrapper up to the call of the wrapped function:
\* QuotaManager.consume_quota checks and consumes the global quota, then the
\* client's; the wrapped function starts when both were granted.
EnforceQuota(t, amount) ==
    /\ QuotaFrame
    /\ qpc[t] = "idle"
    /\ LET called == [phase |-> "in_func", client_before |-> usage.current_usage,
                      global_before |-> global_usage, alone |-> TRUE]
           denied == [called EXCEPT !.phase = "denied"]
       IN  IF global_usage + amount > GlobalQuotaLimit
             THEN /\ qcall' = [Disturbed(FALSE) EXCEPT ![t] = denied]
                  /\ qres' = [Forget(t) EXCEPT ![t] =
                                  QuotaResult("enforce_quota", amount,
                                              "GlobalQuotaExceededError")]
                  /\ qreset' = NoReset
                  /\ UNCHANGED <<qcfg, usage, global_usage, qnow, qLock, qpc>>
             ELSE /\ global_usage' = global_usage + amount
                  /\ \/ /\ QuotaLockBusy(t, "enforce_quota", amount)
                        /\ qcall' = Disturbed(TRUE)
                     \/ /\ qLock = LockFree
                        /\ IF reset_needed(usage, qnow)
                             THEN /\ QuotaResetUnderLock(t, "enforce_quota", amount)
                                  /\ qcall' = Disturbed(TRUE)
                           ELSE LET r == consume_quota_body(usage, amount)
                                IN /\ usage' = r.usage
                                   /\ qres' = [Forget(t) EXCEPT ![t] =
                                                   QuotaResult("enforce_quota", amount,
                                                               r.result)]
                                   /\ qreset' = NoReset
                                   /\ UNCHANGED <<qcfg, qnow, qLock>>
                                   /\ qcall' = [Disturbed(TRUE) EXCEPT ![t] =
                                                   IF r.result = "True" THEN called
                                                   ELSE denied]
                                   /\ qpc' = [qpc EXCEPT ![t] =
                                                 IF r.result = "True" THEN "in_func"
                                                 ELSE "idle"]

\* The wrapped function ends, by returning or by raising; the wrapper hands
\* either on to its caller.
GuardedReturn(t, how) ==
    /\ QuotaFrame
    /\ qpc[t] = "in_func"
    /\ qpc' = [qpc EXCEPT ![t] = "idle"]
    /\ qcall' = [Disturbed(FALSE) EXCEPT ![t] = [qcall[t] EXCEPT !.phase = how]]
    /\ qres' = Forget(t)
    /\ qreset' = NoReset
    /\ UNCHANGED <<qcfg, usage, global_usage, qnow, qLock>>

\* The wall clock passes a period boundary.
QuotaTick ==
    /\ QuotaFrame
    /\ qnow < MaxPeriod
    /\ qnow' = qnow + 1
    /\ qreset' = NoReset
    /\ qcall' = Disturbed(FALSE)
    /\ UNCHANGED <<qcfg, usage, global_usage, qLock, qpc, qres>>

QuotaNext ==
    \/ \E t \in QuotaTasks, l \in BOOLEAN, a \in Amounts : ConsumeQuota(t, l, a)
    \/ \E t \in QuotaTasks, l \in BOOLEAN, a \in Amounts : CheckQuotaAvailable(t, l, a)
    \/ \E t \in QuotaTasks, w \in {"limited", "unlimited", "all"} : GetQuotaStatus(t, w)
    \/ \E t \in QuotaTasks, l \in BOOLEAN, f \in BOOLEAN : ResetQuota(t, l, f)
    \/ \E t \in QuotaTasks, a \in Amounts : EnforceQuota(t, a)
    \/ \E t \in QuotaTasks, h \in {"returned", "raised"} : GuardedReturn(t, h)
    \/ QuotaTick

(***************************************************************************)
(* Claims about locks                                                      *)
(***************************************************************************)

\* C9: no task blocks forever on a lock: no task waits for a lock that it
\* holds itself (asyncio.Lock is not reentrant, so such a wait never ends).
C9_NoTaskWaitsForItsOwnLock ==
    \A t \in QuotaTasks :
        qpc[t] \in {"reset_lock_wait", "status_lock_wait"} => qLock # t

(***************************************************************************)
(* Claims about quotas                                                     *)
(***************************************************************************)

\* C14: after a reset, a consume call succeeds when it keeps the cumulative
\* usage within the effective limit (base limit + rollover balance + burst
\* allowance) and raises QuotaExceeded when it would take it beyond, however
\* the amount was split over the calls so far.
C14_ConsumeUpToEffectiveLimit ==
    \A t \in QuotaTasks :
        (qres[t].op = "consume_quota" /\ qres[t].amount > 0 /\ qres[t].result # "none")
            => (qres[t].result = "True"
                    <=> qres[t].before + qres[t].amount <= qres[t].effective)

\* The consume call of scenario S3 made after the period boundary: the quota
\* (QuotaLimitValue standing for 100, no burst, no rollover) was used up and
\* the call after that was refused, and the call has not returned yet.
S3CallAfterBoundary(t) ==
    /\ qcfg.burst_allowance = 0 /\ ~qcfg.rollover_allowed
    /\ qres[t].op = "consume_quota" /\ qres[t].amount = 1 /\ qres[t].result = "none"
    /\ qres[t].before = QuotaLimitValue
    /\ usage.limit_exceeded
    /\ reset_needed(usage, qnow)
    /\ qpc[t] = "reset_lock_wait"

\* C15: scenario S3: with the quota used up, the next call raises
\* QuotaExceeded, and the first consume call after the period boundary
\* returns successfully with current_usage = 1.
C15_ScenarioS3 ==
    \A t \in QuotaTasks :
        /\ []((qcfg.burst_allowance = 0 /\ qres[t].op = "consume_quota"
                   /\ qres[t].amount = 1 /\ qres[t].result # "none"
                   /\ qres[t].before = QuotaLimitValue /\ qres[t].effective = QuotaLimitValue)
                => qres[t].result = "QuotaExceededError")
        /\ S3CallAfterBoundary(t)
               ~> (qpc[t] = "idle" /\ qres[t].op = "consume_quota"
                       /\ qres[t].result = "True" /\ usage.current_usage = 1)

\* C16: quota reset is idempotent: a second reset of the same kind in the
\* same period, with no call since the first, leaves the quota state (current usage,
\* rollover balance, burst used, warning and exceeded flags) as the first
\* reset left it.
C16_ResetIdempotent ==
    qreset.count = 2 => QuotaState(usage) = qreset.first

\* C17: quota consumed for a request is refunded when the request fails:
\* after the function of a quota-guarded call raised, with no other call in
\* between, the client's usage and the global usage are what they were
\* before the call.
C17_QuotaRefundedOnFailure ==
    \A t \in QuotaTasks :
        (qcall[t].phase = "raised" /\ qcall[t].alone) =>
            /\ usage.current_usage = qcall[t].client_before
            /\ global_usage = qcall[t].global_before

\* C40: a consume_quota call of the manager that is denied at the client
\* level leaves the global quota usage unchanged: once the client's quota
\* has refused the amount, the global usage is what the call found.
C40_ClientDenialLeavesGlobalUsage ==
    \A t \in QuotaTasks :
        (/\ qcall[t].phase = "denied"
         /\ qres[t].op = "enforce_quota"
         /\ qres[t].result = "QuotaExceededError")
            => global_usage = qcall[t].global_before

(***************************************************************************)
(* Circuit breaker: rate_limiting/circuit_breaker.py                       *)
(*                                                                         *)
(* _state_lock is held only inside segments without a suspension point, so *)
(* it is never contended and every `async with self._state_lock` block is  *)
(* one atomic step.                                                        *)
(***************************************************************************)

\* Number of concurrent callers of CircuitBreaker.call.
NumCallers == 2
\* CircuitBreakerConfig.failure_threshold and success_threshold, scaled down.
FailureThreshold == 2
SuccessThreshold == 2
\* Largest half_open_max_calls of the configurations explored.
MaxHalfOpenCalls == 2
\* CircuitBreakerConfig.recovery_timeout, max_recovery_timeout and
\* monitoring_window in seconds, scaled down.
RecoveryTimeout == 2
MaxRecoveryTimeout == 3
MonitoringWindow == 1
\* The clock runs from 0 to MaxTime.
MaxTime == 3

Callers == 1..NumCallers
NeverOpened == 0 - 1
CallOutcomes == {"success", "failure", "timeout", "cancelled"}

\* kind: "admitted" or "rejected"; stateBefore: the state call() found;
\* elapsed: the time since state_changed_at as call() found it.
NoCall == [kind |-> "none", stateBefore |-> "closed", elapsed |-> 0]
\* kind: a call outcome, "force_open", "force_close" or "reset"; from: the
\* state it found; successes: success_count as it found it.
NoEvent == [kind |-> "none", from |-> "closed", successes |-> 0]
EventOf(kind, b) == [kind |-> kind, from |-> b.state, successes |-> b.success_count]

\* CircuitBreaker.__init__ at time 0 with a fresh CircuitBreakerMetrics.
NewBreaker(now) ==
    [state |-> "closed", state_changed_at |-> now, failure_count |-> 0,
     success_count |-> 0, half_open_calls |-> 0, state_changes |-> 0,
     recent_failures |-> <<>>]

CBInit ==
    /\ cbcfg \in [failure_threshold : {FailureThreshold},
                  success_threshold : {SuccessThreshold},
                  half_open_max_calls : 1..MaxHalfOpenCalls,
                  exponential_backoff : BOOLEAN]
    /\ cb = NewBreaker(0)
    /\ cbNow = 0
    /\ callpc = [c \in Callers |-> "idle"]
    /\ openedAt = NeverOpened
    /\ lastCall = NoCall
    /\ lastEvent = NoEvent

RECURSIVE Pow2(_)
Pow2(n) == IF n = 0 THEN 1 ELSE 2 * Pow2(n - 1)

\* _get_recovery_timeout: recovery_timeout * min(2 ** (state_changes // 2),
\* max_recovery_timeout / recovery_timeout), capped at max_recovery_timeout;
\* that is min(recovery_timeout * 2 ** (state_changes // 2), max_recovery_timeout).
get_recovery_timeout(b) ==
    IF ~cbcfg.exponential_backoff
      THEN RecoveryTimeout
      ELSE MinOf(RecoveryTimeout * Pow2(b.state_changes \div 2), MaxRecoveryTimeout)

\* metrics.state_changes counts without bound; the timeout above is the same
\* for every count from StateChangesCap on, where the count is held.
StateChangesCap ==
    CHOOSE s \in 0..(2 * MaxRecoveryTimeout) :
        /\ RecoveryTimeout * Pow2(s \div 2) >= MaxRecoveryTimeout
        /\ \A r \in 0..(s - 1) : RecoveryTimeout * Pow2(r \div 2) < MaxRecoveryTimeout

record_state_change(b) ==
    [b EXCEPT !.state_changes = MinOf(@ + 1, StateChangesCap)]

transition_to_open(b, now) ==
    IF b.state # "open"
      THEN record_state_change([b EXCEPT !.state = "open",
                                         !.state_changed_at = now,
                                         !.success_count = 0,
                                         !.half_open_calls = 0])
      ELSE b

transition_to_half_open(b, now) ==
    IF b.state # "half_open"
      THEN record_state_change([b EXCEPT !.state = "half_open",
                                         !.state_changed_at = now,
                                         !.success_count = 0,
                                         !.half_open_calls = 0])
      ELSE b

transition_to_closed(b, now) ==
    IF b.state # "closed"
      THEN record_state_change([b EXCEPT !.state = "closed",
                                         !.state_changed_at = now,
                                         !.failure_count = 0,
                                         !.success_count = 0,
                                         !.half_open_calls = 0])
      ELSE b

\* _can_execute with the test of the elapsed time dropped: an open circuit
\* goes to half-open at the first call.
can_execute_ignoring_timeout(b, now) ==
    IF b.state = "closed" THEN [ok |-> TRUE, cb |-> b]
    ELSE IF b.state = "open"
      THEN [ok |-> TRUE, cb |-> transition_to_half_open(b, now)]
    ELSE [ok |-> b.half_open_calls < cbcfg.half_open_max_calls, cb |-> b]

\* _can_execute: the decision and the breaker after it.
can_execute(b, now) ==
    IF b.state = "closed" THEN [ok |-> TRUE, cb |-> b]
    ELSE IF b.state = "open"
      THEN IF now - b.state_changed_at >= get_recovery_timeout(b)
             THEN [ok |-> TRUE, cb |-> transition_to_half_open(b, now)]
             ELSE [ok |-> FALSE, cb |-> b]
    ELSE [ok |-> b.half_open_calls < cbcfg.half_open_max_calls, cb |-> b]

\* metrics.record_failure followed by get_recent_failure_count: the failure
\* times inside the monitoring window.  Only the failure_threshold newest
\* are kept: the code compares their number with failure_threshold only.
record_failure(rf, now) ==
    LET all == Append(SelectSeq(rf, LAMBDA ts : ts >= now - MonitoringWindow), now)
        n == Len(all)
    IN IF n > cbcfg.failure_threshold
         THEN SubSeq(all, n - cbcfg.failure_threshold + 1, n)
         ELSE all

\* _on_success that closes a half-open circuit at its first success.
on_success_closing_at_once(b, now) ==
    IF b.state = "half_open"
      THEN transition_to_closed([b EXCEPT !.success_count = @ + 1], now)
    ELSE IF b.state = "closed" THEN [b EXCEPT !.failure_count = 0]
    ELSE b

\* _on_success under the state lock.
on_success(b, now) ==
    IF b.state = "half_open"
      THEN LET b1 == [b EXCEPT !.success_count = @ + 1]
           IN IF b1.success_count >= cbcfg.success_threshold
                THEN transition_to_closed(b1, now) ELSE b1
    ELSE IF b.state = "closed" THEN [b EXCEPT !.failure_count = 0]
    ELSE b

\* _on_failure under the state lock.
on_failure(b, now) ==
    LET b0 == [b EXCEPT !.recent_failures = record_failure(@, now)]
    IN IF b0.state = "closed"
         THEN LET b1 == [b0 EXCEPT !.failure_count =
                                       MinOf(@ + 1, cbcfg.failure_threshold)]
              IN IF \/ b1.failure_count >= cbcfg.failure_threshold
                    \/ Len(b1.recent_failures) >= cbcfg.failure_threshold
                   THEN transition_to_open(b1, now) ELSE b1
       ELSE IF b0.state = "half_open" THEN transition_to_open(b0, now)
       ELSE b0

\* The ghost openedAt after the breaker went from b to b2 at time now.
OpenedAtAfter(b, b2, now) ==
    IF b2.state = "open" /\ b.state # "open" THEN now ELSE openedAt

\* CircuitBreaker.call up to the wrapped function: the admission decision
\* under the state lock; a rejected call raises CircuitBreakerOpenError.
CallStart(c) ==
    /\ CBFrame
    /\ callpc[c] = "idle"
    /\ LET d == can_execute(cb, cbNow)
           b2 == IF d.ok /\ d.cb.state = "half_open"
                   THEN [d.cb EXCEPT !.half_open_calls = @ + 1] ELSE d.cb
       IN /\ cb' = b2
          /\ callpc' = [callpc EXCEPT ![c] = IF d.ok THEN "running" ELSE "idle"]
          /\ lastCall' = [kind |-> IF d.ok THEN "admitted" ELSE "rejected",
                          stateBefore |-> cb.state,
                          elapsed |-> cbNow - cb.state_changed_at]
    /\ lastEvent' = NoEvent
    /\ UNCHANGED <<cbcfg, cbNow, openedAt>>

\* The wrapped function ends: success -> _on_success; an exception or the
\* wait_for timeout -> _on_failure; a cancellation passes both handlers by.
CallReturn(c, outcome) ==
    /\ CBFrame
    /\ callpc[c] = "running"
    /\ LET b2 == IF outcome = "success" THEN on_success(cb, cbNow)
                 ELSE IF outcome \in {"failure", "timeout"} THEN on_failure(cb, cbNow)
                 ELSE cb
       IN /\ cb' = b2
          /\ openedAt' = OpenedAtAfter(cb, b2, cbNow)
    /\ callpc' = [callpc EXCEPT ![c] = "idle"]
    /\ lastCall' = NoCall
    /\ lastEvent' = EventOf(outcome, cb)
    /\ UNCHANGED <<cbcfg, cbNow>>

force_open ==
    /\ CBFrame
    /\ cb' = transition_to_open(cb, cbNow)
    /\ openedAt' = OpenedAtAfter(cb, cb', cbNow)
    /\ lastCall' = NoCall
    /\ lastEvent' = EventOf("force_open", cb)
    /\ UNCHANGED <<cbcfg, cbNow, callpc>>

force_close ==
    /\ CBFrame
    /\ cb' = transition_to_closed(cb, cbNow)
    /\ lastCall' = NoCall
    /\ lastEvent' = EventOf("force_close", cb)
    /\ UNCHANGED <<cbcfg, cbNow, callpc, openedAt>>

\* reset(): closed, counters zeroed, a new CircuitBreakerMetrics.
reset ==
    /\ CBFrame
    /\ cb' = NewBreaker(cbNow)
    /\ lastCall' = NoCall
    /\ lastEvent' = EventOf("reset", cb)
    /\ UNCHANGED <<cbcfg, cbNow, callpc, openedAt>>

\* The clock advances.  Failure times that leave the monitoring window are
\* never counted again (the code drops them at its next count).
CBTick ==
    /\ CBFrame
    /\ cbNow < MaxTime
    /\ cbNow' = cbNow + 1
    /\ cb' = [cb EXCEPT !.recent_failures =
                  SelectSeq(@, LAMBDA ts : ts >= cbNow + 1 - MonitoringWindow)]
    /\ lastCall' = NoCall
    /\ lastEvent' = NoEvent
    /\ UNCHANGED <<cbcfg, callpc, openedAt>>

CBNext ==
    \/ \E c \in Callers : CallStart(c)
    \/ \E c \in Callers, o \in CallOutcomes : CallReturn(c, o)
    \/ force_open
    \/ force_close
    \/ reset
    \/ CBTick

(***************************************************************************)
(* Claims about the circuit breaker                                        *)
(***************************************************************************)

\* C10 as stated: once the circuit has opened, every call admitted to the
\* wrapped function comes at least recovery_timeout after the circuit last
\* opened.
C10_NoCallBeforeRecoveryTimeout ==
    (lastCall.kind = "admitted" /\ openedAt # NeverOpened)
    => cbNow - openedAt >= RecoveryTimeout

\* C10 amended: a call that finds the circuit in state open is admitted only
\* when at least recovery_timeout has passed since the circuit entered that
\* state, and then moves it to half-open; every call that finds it open
\* earlier is rejected with the circuit-open error and leaves it open, and no
\* call is rejected once max_recovery_timeout has passed.
C10_OpenRejectsUntilTimeout ==
    lastCall.stateBefore = "open" =>
        /\ lastCall.kind \in {"admitted", "rejected"}
        /\ lastCall.elapsed < RecoveryTimeout => lastCall.kind = "rejected"
        /\ lastCall.kind = "admitted" =>
               /\ lastCall.elapsed >= RecoveryTimeout
               /\ cb.state = "half_open" /\ cb.state_changed_at = cbNow
        /\ lastCall.kind = "rejected" =>
               /\ lastCall.elapsed < MaxRecoveryTimeout
               /\ cb.state = "open" /\ cbNow - cb.state_changed_at = lastCall.elapsed

\* A call has just been rejected by a circuit that has been open for
\* recovery_timeout already (the timeout has grown).
C10_Witness ==
    /\ lastCall.stateBefore = "open" /\ lastCall.kind = "rejected"
    /\ lastCall.elapsed >= RecoveryTimeout

\* C11 as stated: a circuit that was half-open is closed exactly when the
\* success_threshold-th success since it became half-open has completed, and
\* a failure (or timeout) in half-open returns it to open.
C11_ClosedExactlyOnSuccesses ==
    lastEvent.from = "half_open" =>
        /\ cb.state = "closed" <=>
               (lastEvent.kind = "success"
                   /\ lastEvent.successes + 1 >= cbcfg.success_threshold)
        /\ lastEvent.kind \in {"failure", "timeout"} => cb.state = "open"

\* C11 amended: a call outcome handled in half-open closes the circuit exactly
\* when it is the success_threshold-th success since the circuit became
\* half-open (counters reset); an earlier success only counts; a failure or
\* timeout returns it to open; a cancelled call changes nothing.  Apart from
\* call outcomes only force_close() and reset() close a half-open circuit.
C11_HalfOpenTransitions ==
    lastEvent.from = "half_open" =>
        /\ lastEvent.kind = "success" =>
               IF lastEvent.successes + 1 >= cbcfg.success_threshold
                 THEN /\ cb.state = "closed" /\ cb.state_changed_at = cbNow
                      /\ cb.failure_count = 0 /\ cb.success_count = 0
                      /\ cb.half_open_calls = 0
                 ELSE /\ cb.state = "half_open"
                      /\ cb.success_count = lastEvent.successes + 1
        /\ lastEvent.kind \in {"failure", "timeout"} =>
               /\ cb.state = "open" /\ cb.state_changed_at = cbNow
               /\ cb.success_count = 0 /\ openedAt = cbNow
        /\ lastEvent.kind = "cancelled" =>
               (cb.state = "half_open" /\ cb.success_count = lastEvent.successes)
        /\ cb.state = "closed" =>
               lastEvent.kind \in {"success", "force_close", "reset"}

\* The success_threshold-th success in half-open has just closed a circuit
\* that failures had opened.
C11_Witness ==
    /\ lastEvent.from = "half_open" /\ lastEvent.kind = "success"
    /\ cbcfg.success_threshold > 1
    /\ lastEvent.successes + 1 = cbcfg.success_threshold
    /\ cb.state = "closed" /\ openedAt # NeverOpened

\* C38: the breaker never stays half-open forever: while calls keep
\* arriving and every admitted call comes to an end, by a success, a
\* failure, a timeout or a cancellation, a half-open breaker eventually
\* becomes closed or open.
C38_HalfOpenEventuallyLeft ==
    [](cb.state = "half_open" => <>(cb.state \in {"closed", "open"}))

(***************************************************************************)
(* Rate limiter: rate_limiting/rate_limiter.py                             *)
(*                                                                         *)
(* Every lock of the limiter is held only inside a segment without a       *)
(* suspension point, so check_rate_limits, acquire_request_slot and        *)
(* release_request_slot are one atomic step each.  The limiters carry the  *)
(* concurrent-requests rule and the requests-per-second token bucket.      *)
(* Token counts are floats in the program; here they are exact multiples   *)
(* of 1/TokenUnit.                                                         *)
(***************************************************************************)

RLMaxTime == 11
RLMaxRequests == 17
RLMaxSlots == 1
LowLimit == 3
LowBurst == 0
ConcurrentLimit == 1

\* time.time() is read in ticks of a tenth of a second; between two calls
\* it advances by one of ClockSteps.
TicksPerSecond == 10
ClockSteps == {4, 7}

\* Defaults of _get_default_client_limits and _get_global_limits.
client_requests_per_second == 10
client_burst_allowance == 5
global_requests_per_second == 100
global_burst_allowance == 50

\* One token, in the unit of TokenBucket.tokens (window_seconds = 1).
TokenUnit == TicksPerSecond

NoRetryAfter == 0 - 1
NoCheck == [result |-> "none", limit_type |-> "none", retry_after |-> NoRetryAfter,
            at |-> 0, prev |-> 0, nth |-> 0, blocked_before |-> 0, slots |-> 0]

\* TokenBucket.__init__: a full bucket.
NewTokenBucket(capacity, now) ==
    [tokens |-> capacity * TokenUnit, last_refill |-> now]

\* The counters of a limiter; GlobalRateLimit has no last_request_time and
\* keeps it at 0.
NewStats(now) ==
    [total_requests |-> 0, blocked_requests |-> 0, concurrent_requests |-> 0,
     last_request_time |-> now]

\* TokenBucket._refill that forgets the capacity.
refill_without_cap(b, capacity, limit, now) ==
    IF now - b.last_refill > 0
      THEN [tokens |-> b.tokens + (now - b.last_refill) * limit, last_refill |-> now]
      ELSE b

\* TokenBucket._refill: tokens_to_add = elapsed * refill_rate, capped.
refill(b, capacity, limit, now) ==
    IF now - b.last_refill > 0
      THEN [tokens |-> MinOf(capacity * TokenUnit,
                             b.tokens + (now - b.last_refill) * limit),
            last_refill |-> now]
      ELSE b

\* TokenBucket.consume(1) that skips the refill.
consume_without_refill(b, capacity, limit, now) ==
    IF b.tokens >= TokenUnit
      THEN [bucket |-> [b EXCEPT !.tokens = @ - TokenUnit], success |-> TRUE,
            retry_after |-> 0]
      ELSE [bucket |-> b, success |-> FALSE,
            retry_after |-> ((TokenUnit - b.tokens) * 1000) \div (TokenUnit * limit)]

\* TokenBucket.consume(1): (bucket, success, retry_after in milliseconds).
consume(b, capacity, limit, now) ==
    LET r == refill(b, capacity, limit, now) IN
    IF r.tokens >= TokenUnit
      THEN [bucket |-> [r EXCEPT !.tokens = @ - TokenUnit], success |-> TRUE,
            retry_after |-> 0]
      ELSE [bucket |-> r, success |-> FALSE,
            retry_after |-> ((TokenUnit - r.tokens) * 1000) \div (TokenUnit * limit)]

\* ClientRateLimit.check_limits / GlobalRateLimit.check_limits: the
\* concurrent-requests rule, then the token bucket.
check_limits(stats, bucket, limit, burst, concurrent, prefix, now) ==
    LET counted == [stats EXCEPT !.total_requests = @ + 1, !.last_request_time = now]
        blocked == [counted EXCEPT !.blocked_requests = @ + 1]
        c == consume(bucket, limit + burst, limit, now)
    IN  IF counted.concurrent_requests >= concurrent
          THEN [stats |-> blocked, bucket |-> bucket, ok |-> FALSE,
                limit_type |-> prefix \o "concurrent_requests",
                retry_after |-> NoRetryAfter]
        ELSE IF ~c.success
          THEN [stats |-> blocked, bucket |-> c.bucket, ok |-> FALSE,
                limit_type |-> prefix \o "requests_per_second",
                retry_after |-> c.retry_after]
        ELSE [stats |-> counted, bucket |-> c.bucket, ok |-> TRUE,
              limit_type |-> "none", retry_after |-> NoRetryAfter]

\* RateLimiter.get_client_limiter: the client's limiter, created on first use.
get_client_limiter(now) ==
    IF client_limits
      THEN [bucket |-> cbucket, stats |-> cstats]
      ELSE [bucket |-> NewTokenBucket(rlcfg.limit + rlcfg.burst, now),
            stats |-> NewStats(now)]

RLConfigs ==
    {[limit |-> r[1], burst |-> r[2],
      glimit |-> global_requests_per_second, gburst |-> global_burst_allowance,
      concurrent |-> ConcurrentLimit, gconcurrent |-> ConcurrentLimit] :
        r \in {<<LowLimit, LowBurst>>,
               <<client_requests_per_second, client_burst_allowance>>}}

RLInit ==
    /\ rlcfg \in RLConfigs
    /\ rlNow = 0
    /\ client_limits = FALSE
    /\ cbucket = NewTokenBucket(rlcfg.limit + rlcfg.burst, 0)
    /\ cstats = NewStats(0)
    /\ gbucket = NewTokenBucket(rlcfg.glimit + rlcfg.gburst, 0)
    /\ gstats = NewStats(0)
    /\ windowStart \in {0} \cup ClockSteps
    /\ grantedSince = 0
    /\ rlLast = NoCheck

\* RateLimiter.check_rate_limits: global limits first, then the client's.
check_rate_limits ==
    /\ gstats.total_requests < RLMaxRequests
    /\ LET g == check_limits(gstats, gbucket, rlcfg.glimit, rlcfg.gburst,
                             rlcfg.gconcurrent, "global_", rlNow)
           cl == get_client_limiter(rlNow)
           c == check_limits(cl.stats, cl.bucket, rlcfg.limit, rlcfg.burst,
                             rlcfg.concurrent, "", rlNow)
           seen == [at |-> rlNow, prev |-> cl.stats.last_request_time,
                    nth |-> cl.stats.total_requests + 1,
                    blocked_before |-> cl.stats.blocked_requests,
                    slots |-> cl.stats.concurrent_requests]
       IN  /\ gstats' = [g.stats EXCEPT !.last_request_time = 0]
           /\ gbucket' = g.bucket
           /\ IF ~g.ok
                THEN /\ UNCHANGED <<client_limits, cbucket, cstats, grantedSince>>
                     /\ rlLast' = [NoCheck EXCEPT !.result = "RateLimitError",
                                                  !.limit_type = g.limit_type,
                                                  !.retry_after = g.retry_after,
                                                  !.at = rlNow]
                ELSE /\ client_limits' = TRUE
                     /\ cstats' = c.stats
                     /\ cbucket' = c.bucket
                     /\ grantedSince' = IF c.ok /\ rlNow >= windowStart
                                          THEN grantedSince + 1 ELSE grantedSince
                     /\ rlLast' = [result |-> IF c.ok THEN "ok" ELSE "RateLimitError",
                                   limit_type |-> c.limit_type,
                                   retry_after |-> c.retry_after] @@ seen
    /\ UNCHANGED <<rlcfg, rlNow, windowStart>>

CheckRateLimits == RLFrame /\ check_rate_limits

\* RateLimiter.acquire_request_slot: both gauges are incremented, whatever
\* their value.
acquire_request_slot ==
    /\ gstats' = [gstats EXCEPT !.concurrent_requests = @ + 1]
    /\ client_limits' = TRUE
    /\ cbucket' = get_client_limiter(rlNow).bucket
    /\ cstats' = [get_client_limiter(rlNow).stats EXCEPT !.concurrent_requests = @ + 1]
    /\ rlLast' = NoCheck
    /\ UNCHANGED <<rlcfg, rlNow, gbucket, windowStart, grantedSince>>

AcquireRequestSlot ==
    /\ RLFrame
    /\ gstats.concurrent_requests < RLMaxSlots
    /\ acquire_request_slot

\* RateLimiter.release_request_slot.
release_request_slot ==
    /\ gstats' = [gstats EXCEPT !.concurrent_requests = MaxOf(0, @ - 1)]
    /\ cstats' = IF client_limits
                   THEN [cstats EXCEPT !.concurrent_requests = MaxOf(0, @ - 1)]
                   ELSE cstats
    /\ rlLast' = NoCheck
    /\ UNCHANGED <<rlcfg, rlNow, client_limits, cbucket, gbucket, windowStart,
                   grantedSince>>

ReleaseRequestSlot ==
    /\ RLFrame
    /\ gstats.concurrent_requests > 0 \/ (client_limits /\ cstats.concurrent_requests > 0)
    /\ release_request_slot

\* The clock advances.
RLTick ==
    /\ RLFrame
    /\ \E d \in ClockSteps :
           /\ rlNow + d <= RLMaxTime
           /\ rlNow' = rlNow + d
    /\ rlLast' = NoCheck
    /\ UNCHANGED <<rlcfg, client_limits, cbucket, cstats, gbucket, gstats,
                   windowStart, grantedSince>>

RLNext ==
    \/ CheckRateLimits
    \/ AcquireRequestSlot
    \/ ReleaseRequestSlot
    \/ RLTick

(***************************************************************************)
(* Claims about the rate limiter                                           *)
(***************************************************************************)

\* C12 as stated: over any interval of length T (here from windowStart to
\* now) the number of successful check_rate_limits calls of the client is at
\* most ceil(T * rate) + burst, with rate = limit / window.
C12_AtMostRateTimesTPlusBurst ==
    rlNow >= windowStart =>
        grantedSince <=
            ((rlNow - windowStart) * rlcfg.limit + TicksPerSecond - 1) \div TicksPerSecond
                + rlcfg.burst

\* C12 amended: over any interval of length T the number of successful
\* check_rate_limits calls of the client is at most the bucket's capacity
\* plus what is refilled meanwhile: limit + burst + floor(T * rate).
C12_AtMostCapacityPlusRefill ==
    /\ rlNow < windowStart => grantedSince = 0
    /\ rlNow >= windowStart =>
           grantedSince <=
               rlcfg.limit + rlcfg.burst
                   + ((rlNow - windowStart) * rlcfg.limit) \div TicksPerSecond

\* A check is granted that makes an interval of positive length reach the
\* amended bound, which is above the stated one.
C12_Witness ==
    /\ rlLast.result = "ok"
    /\ rlNow > windowStart
    /\ grantedSince =
           rlcfg.limit + rlcfg.burst
               + ((rlNow - windowStart) * rlcfg.limit) \div TicksPerSecond
    /\ grantedSince >
           ((rlNow - windowStart) * rlcfg.limit + TicksPerSecond - 1) \div TicksPerSecond
               + rlcfg.burst

\* The setting of scenario S2: client limit 10 requests/second, burst 5, no
\* request slot held, and no check of the client refused so far.
ScenarioS2 ==
    /\ rlcfg.limit = 10 /\ rlcfg.burst = 5
    /\ rlLast.result # "none" /\ rlLast.nth > 0
    /\ rlLast.slots = 0
    /\ rlLast.blocked_before = 0

\* The 16th check of the client, made at t = 0.4 s after 15 checks at t = 0.
S2CallAt04 ==
    /\ ScenarioS2
    /\ rlLast.nth = 16 /\ rlLast.prev = 0
    /\ 10 * rlLast.at = 4 * TicksPerSecond

\* The 17th check of the client, made at t = 1.1 s after the one at t = 0.4.
S2CallAt11 ==
    /\ ScenarioS2
    /\ rlLast.nth = 17 /\ 10 * rlLast.prev = 4 * TicksPerSecond
    /\ 10 * rlLast.at = 11 * TicksPerSecond

\* C13 as stated: in scenario S2 the 15 calls at t = 0 all succeed, the call
\* at t = 0.4 fails with a RateLimitError whose retry_after is about 0.6 s,
\* and the call at t = 1.1 succeeds.
C13_ScenarioS2 ==
    /\ (ScenarioS2 /\ rlLast.at = 0 /\ rlLast.nth <= 15) => rlLast.result = "ok"
    /\ S2CallAt04 =>
           /\ rlLast.result = "RateLimitError"
           /\ rlLast.retry_after \in 500..700
    /\ S2CallAt11 => rlLast.result = "ok"

\* C13 amended: in scenario S2 the 15 calls at t = 0 all succeed and a 16th
\* call at t = 0 fails with a requests_per_second RateLimitError whose
\* retry_after is 0.1 s; the call at t = 0.4 succeeds, because 4 tokens have
\* been refilled by then, and leaves 3 tokens; a 17th call at t = 1.1
\* succeeds.
C13_ScenarioS2Refilled ==
    /\ (ScenarioS2 /\ rlLast.at = 0 /\ rlLast.nth <= 15) => rlLast.result = "ok"
    /\ (ScenarioS2 /\ rlLast.at = 0 /\ rlLast.nth = 16) =>
           /\ rlLast.result = "RateLimitError"
           /\ rlLast.limit_type = "requests_per_second"
           /\ rlLast.retry_after = 100
           /\ cstats.blocked_requests = 1
    /\ S2CallAt04 =>
           /\ rlLast.result = "ok"
           /\ cbucket.tokens = 3 * TokenUnit
    /\ S2CallAt11 => rlLast.result = "ok"

\* The call at t = 1.1 of scenario S2 has returned, after the 15 calls at
\* t = 0 and the call at t = 0.4.
C13_Witness ==
    /\ S2CallAt11
    /\ cstats.total_requests = 17 /\ cstats.blocked_requests = 0
    /\ rlLast.result = "ok"

\* C39: a check_rate_limits call that is denied consumes nothing: when it
\* ends in a RateLimitError, the global token bucket holds what it held
\* before the call, at most brought up to date by the refill for the time
\* that has passed.
C39_DeniedCheckConsumesNothing ==
    [][(/\ gstats'.total_requests = gstats.total_requests + 1
        /\ rlLast'.result = "RateLimitError")
          => gbucket' \in {gbucket,
                          refill(gbucket, rlcfg.glimit + rlcfg.gburst, rlcfg.glimit, rlNow)}]_vars

(***************************************************************************)
(* SQL validator: security/sql_injection.py                                *)
(*                                                                         *)
(* validate_query is a pure function of the configuration and the query.   *)
(* A query is given by what the three layers see of it: the risk the       *)
(* pattern matcher finds, the token types the tokenizer yields, and the    *)
(* outcome of parsing and walking the AST; each layer may also raise.      *)
(***************************************************************************)

\* Longest token list of a query.
MaxTokens == 2

\* SQLInjectionRisk, in the order of the enum.
RiskLevels == <<"none", "low", "medium", "high", "critical">>
RiskRank(r) == CHOOSE i \in 1..Len(RiskLevels) : RiskLevels[i] = r

\* max(a, b, key=lambda x: list(SQLInjectionRisk).index(x))
MaxRisk(a, b) == IF RiskRank(b) > RiskRank(a) THEN b ELSE a

\* The token types the queries are made of.
TokenTypes == {"SELECT", "SHOW", "DELETE", "CALL", "UNION", "STRING", "SUSPICIOUS_STRING"}

\* The token types analyze_tokens takes the query type from.
QueryTypeTokens ==
    {"SELECT", "INSERT", "UPDATE", "DELETE", "CREATE", "DROP", "ALTER", "TRUNCATE",
     "GRANT", "REVOKE", "EXECUTE", "CALL"}

\* SQLTokenAnalyzer.forbidden_tokens_readonly.
forbidden_tokens_readonly ==
    {"INSERT", "UPDATE", "DELETE", "DROP", "CREATE", "ALTER", "TRUNCATE", "GRANT",
     "REVOKE", "EXECUTE"}

\* SQLTokenAnalyzer.suspicious_token_sequences.
suspicious_token_sequences ==
    {<<"UNION", "SELECT">>, <<"UNION", "ALL", "SELECT">>,
     <<"AND", "NUMBER", "EQ", "NUMBER">>, <<"OR", "NUMBER", "EQ", "NUMBER">>,
     <<"COMMENT">>, <<"BLOCK_COMMENT">>}

\* The statement verbs that read-only mode is meant to let through.
ReadVerbs == {"SELECT", "SHOW", "DESCRIBE", "EXPLAIN", "WITH"}

\* The token types that start a statement.
StatementVerbs == QueryTypeTokens \cup ReadVerbs

TokenLists == UNION {[1..n -> TokenTypes] : n \in 0..MaxTokens}

\* The queries: None, an empty or blank string, or a text.
Queries ==
    {[shape |-> "none", too_long |-> FALSE, pattern |-> "none", tokenizer |-> "ok",
      tokens |-> <<>>, structure |-> "ok"]}
    \cup {[shape |-> "blank", too_long |-> l, pattern |-> "none", tokenizer |-> "ok",
           tokens |-> <<>>, structure |-> "ok"] : l \in BOOLEAN}
    \cup [shape : {"text"}, too_long : BOOLEAN,
          pattern : {"none", "low", "medium", "high", "critical", "raises"},
          tokenizer : {"ok"}, tokens : TokenLists,
          structure : {"ok", "violations", "unparsed", "raises"}]
    \cup [shape : {"text"}, too_long : BOOLEAN,
          pattern : {"none", "low", "medium", "high", "critical", "raises"},
          tokenizer : {"raises"}, tokens : {<<>>},
          structure : {"ok", "violations", "unparsed", "raises"}]

NoQuery ==
    [shape |-> "none", too_long |-> FALSE, pattern |-> "none", tokenizer |-> "ok",
     tokens |-> <<>>, structure |-> "ok"]

NoValidation ==
    [is_valid |-> TRUE, risk_level |-> "none", query_type |-> "unknown",
     violations |-> {}, layers |-> {}, raised |-> {}, layer_risk |-> "none",
     done |-> FALSE]

\* SQLTokenAnalyzer._matches_sequence.
matches_sequence(toks, pattern) ==
    /\ Len(toks) >= Len(pattern)
    /\ \A i \in 1..Len(pattern) : toks[i] = pattern[i]

\* The first token whose type is one of `types`, or "unknown".
FirstOf(toks, types) ==
    IF \E i \in 1..Len(toks) : toks[i] \in types
      THEN toks[CHOOSE i \in 1..Len(toks) :
                    /\ toks[i] \in types
                    /\ \A j \in 1..(i - 1) : toks[j] \notin types]
      ELSE "unknown"

\* SQLTokenAnalyzer.analyze_tokens: (violations, query_type); an exception
\* inside is caught there and becomes a violation.
analyze_tokens(tokenizer, toks, readonly_mode) ==
    IF tokenizer = "raises"
      THEN [violations |-> {"Token analysis failed"}, query_type |-> "unknown"]
    ELSE IF Len(toks) = 0
      THEN [violations |-> {"Empty query"}, query_type |-> "unknown"]
    ELSE [violations |->
              (IF readonly_mode /\ \E i \in 1..Len(toks) : toks[i] \in forbidden_tokens_readonly
                 THEN {"Forbidden operation in readonly mode"} ELSE {})
              \cup (IF \E i \in 1..(Len(toks) - 1), q \in suspicious_token_sequences :
                           matches_sequence(SubSeq(toks, i, Len(toks)), q)
                      THEN {"Suspicious token sequence detected"} ELSE {})
              \cup (IF \E i \in 1..Len(toks) : toks[i] = "SUSPICIOUS_STRING"
                      THEN {"Suspicious string literal"} ELSE {}),
          query_type |-> FirstOf(toks, QueryTypeTokens)]

\* SQLStructureValidator.validate_structure: an exception inside is caught
\* there and becomes a violation.
validate_structure(outcome) ==
    CASE outcome = "ok" -> {}
      [] outcome = "violations" -> {"Forbidden function"}
      [] outcome = "unparsed" -> {"Failed to parse query"}
      [] outcome = "raises" -> {"Structure validation failed"}

\* SQLValidator.__init__ with every risk level blocked only above medium.
blocked_above_medium(cfg) == {"critical", "high"}

\* SQLValidator.__init__: blocked_risk_levels.
blocked_risk_levels(cfg) ==
    {"critical", "high"} \cup (IF cfg.strict_validation THEN {"medium"} ELSE {})

\* The `except Exception` branch of validate_query.
validation_error(violations, layers, raised, layer_risk) ==
    [is_valid |-> FALSE, risk_level |-> "high", query_type |-> "unknown",
     violations |-> violations \cup {"SQL validation error"}, layers |-> layers,
     raised |-> raised, layer_risk |-> layer_risk, done |-> TRUE]

\* SQLValidator.validate_query.
validate_query(cfg, q) ==
    LET blocked == blocked_risk_levels(cfg)
        \* basic validation and length check
        v1 == IF q.shape \in {"none", "blank"} THEN {"Empty query"} ELSE {}
        r1 == IF q.shape \in {"none", "blank"} THEN "high" ELSE "none"
        v2 == IF q.too_long THEN v1 \cup {"Query too long"} ELSE v1
        r2 == IF q.too_long THEN "medium" ELSE r1
        \* pattern matching analysis
        runPattern == v2 = {}
        v3 == IF runPattern /\ q.pattern # "none"
                THEN v2 \cup {"Pattern detected"} ELSE v2
        r3 == IF runPattern THEN MaxRisk(r2, q.pattern) ELSE r2
        \* token analysis
        runToken == v3 = {} \/ r3 \notin blocked
        t == analyze_tokens(q.tokenizer, q.tokens, cfg.readonly_mode)
        v4 == IF runToken THEN v3 \cup t.violations ELSE v3
        r4 == IF runToken /\ t.violations # {} THEN MaxRisk(r3, "medium") ELSE r3
        \* structure validation
        runStructure == v4 = {} \/ r4 \notin blocked
        sv == validate_structure(q.structure)
        v5 == IF runStructure THEN v4 \cup sv ELSE v4
        r5 == IF runStructure /\ sv # {} THEN MaxRisk(r4, "medium") ELSE r4
        layers == (IF runPattern THEN {"pattern"} ELSE {})
                  \cup (IF runToken THEN {"token"} ELSE {})
                  \cup (IF runStructure THEN {"structure"} ELSE {})
        raised == (IF runToken /\ q.tokenizer = "raises" THEN {"token"} ELSE {})
                  \cup (IF runStructure /\ q.structure = "raises"
                          THEN {"structure"} ELSE {})
        layer_risk ==
            MaxRisk(IF runPattern THEN q.pattern ELSE "none",
                    IF (runToken /\ t.violations # {}) \/ (runStructure /\ sv # {})
                      THEN "medium" ELSE "none")
    IN  IF q.shape = "none"
          THEN validation_error(v1, {}, {}, "none")
        ELSE IF runPattern /\ q.pattern = "raises"
          THEN validation_error(v2, {"pattern"}, {"pattern"}, "none")
        ELSE [is_valid |-> r5 \notin blocked, risk_level |-> r5,
              query_type |-> IF runToken THEN t.query_type ELSE "unknown",
              violations |-> v5, layers |-> layers, raised |-> raised,
              layer_risk |-> layer_risk, done |-> TRUE]

SQLInit ==
    /\ vcfg \in [readonly_mode : BOOLEAN, strict_validation : BOOLEAN]
    /\ vquery \in Queries
    /\ vresult = NoValidation

\* The call validate_query(vquery).
ValidateQuery ==
    /\ SQLFrame
    /\ ~vresult.done
    /\ vresult' = validate_query(vcfg, vquery)
    /\ UNCHANGED <<vcfg, vquery>>

SQLNext == ValidateQuery

(***************************************************************************)
(* Claims about the SQL validator                                          *)
(***************************************************************************)

C19_ReadOnlyRejectsWriteVerbs ==
    (/\ vresult.done
     /\ vcfg.readonly_mode
     /\ vquery.shape = "text"
     /\ vquery.tokenizer = "ok"
     /\ FirstOf(vquery.tokens, StatementVerbs) \in StatementVerbs \ ReadVerbs)
        => ~vresult.is_valid

\* C20: an exception raised inside a validation layer (pattern, token or
\* structure analysis) classifies the query as high risk and rejects it.
C20_LayerExceptionFailsClosed ==
    (vresult.done /\ vresult.raised # {})
        => (vresult.risk_level = "high" /\ ~vresult.is_valid)

(***************************************************************************)
(* The execute_query tool handler: main.py                                 *)
(*                                                                         *)
(* The handler is followed for one request on the query vquery, up to the  *)
(* point where its DB wrapper calls pool.acquire().                        *)
(***************************************************************************)

HandlerInit ==
    /\ hreq \in [rate_limited : BOOLEAN, quota_exhausted : BOOLEAN]
    /\ hpc = "idle"

\* The read-only check of handle_execute_query: the query parses and the
\* key of each statement is one of read_only_types (a UNION of selects has
\* the key "union").
read_only_check(q) ==
    /\ q.tokenizer = "ok"
    /\ q.structure # "unparsed"
    /\ q.tokens # <<>>
    /\ \A i \in 1..Len(q.tokens) : q.tokens[i] # "UNION"
    /\ Head(q.tokens) \in ReadVerbs

\* with_request_isolation: the wrapper opens the request context and calls
\* the handler.
OpenRequestContext ==
    /\ HandlerFrame
    /\ hpc = "idle"
    /\ hpc' = "context"
    /\ UNCHANGED <<hreq, sqlVars>>

\* handle_execute_query up to its first await: `if not query`, the read-only
\* check, then get_isolated_database_ops or get_transactional_database_ops,
\* which call pool.acquire().
HandleExecuteQuery ==
    /\ HandlerFrame
    /\ hpc = "context"
    /\ hpc' = IF vquery.shape = "text" /\ read_only_check(vquery)
                THEN "acquire" ELSE "returned"
    /\ UNCHANGED <<hreq, sqlVars>>

\* The wrapper scope ends and the handler returns its result or the error.
HandlerReturn ==
    /\ HandlerFrame
    /\ hpc = "acquire"
    /\ hpc' = "returned"
    /\ UNCHANGED <<hreq, sqlVars>>

HandlerNext == OpenRequestContext \/ HandleExecuteQuery \/ HandlerReturn

(***************************************************************************)
(* Claims about the tool handler                                           *)
(***************************************************************************)

\* C21: a tool invocation that the rate limiter, the quota manager or the SQL
\* validator refuses never reaches pool.acquire(): the three checks come
\* before the request's DB wrapper acquires a connection.
C21_DeniedNeverAcquires ==
    hpc = "acquire"
        => /\ ~hreq.rate_limited
           /\ ~hreq.quota_exhausted
           /\ validate_query(vcfg, vquery).is_valid

(***************************************************************************)
(* Request contexts: utils/request_context.py                              *)
(*                                                                         *)
(* Requests are numbered in the order of their creation, so a smaller id   *)
(* is an earlier start_time.  Each method of the manager runs under its    *)
(* lock without an await inside, hence as one step.                        *)
(***************************************************************************)

\* Number of requests followed.
NumRequests == 4
\* RequestContextManager._max_completed_requests and the number of oldest
\* contexts complete_request_context removes beyond it, scaled down.
max_completed_requests == 2
TrimOldest == 1
\* Largest value followed of the counters of a context.
MaxContextCount == 1

Requests == 1..NumRequests

RCInit ==
    /\ active_requests = {}
    /\ completed_requests = {}
    /\ rctx = [r \in Requests |-> [ended |-> FALSE, errors |-> 0, queries |-> 0]]
    /\ rpc = [r \in Requests |-> "new"]

\* The n smallest elements of the set S (all of S when it has fewer).
Oldest(S, n) == {r \in S : Cardinality({q \in S : q < r}) < n}

\* RequestContext.add_error, with the counter capped.
add_error(c) == [c EXCEPT !.errors = IF @ < MaxContextCount THEN @ + 1 ELSE @]

\* RequestContext.complete_request.
complete_request(c) == [c EXCEPT !.ended = TRUE]

\* request_context(): create_request_context, then the body is entered.
CreateRequestContext(r) ==
    /\ RCFrame
    /\ rpc[r] = "new"
    /\ \A q \in Requests : q < r => rpc[q] # "new"
    /\ active_requests' = active_requests \cup {r}
    /\ rpc' = [rpc EXCEPT ![r] = "running"]
    /\ UNCHANGED <<completed_requests, rctx>>

\* The running request writes to its context: add_error from a wrapper or
\* increment_query_count from a DB operation.
RequestWork(r) ==
    /\ RCFrame
    /\ rpc[r] = "running"
    /\ \/ /\ rctx[r].errors < MaxContextCount
          /\ rctx' = [rctx EXCEPT ![r] = add_error(@)]
       \/ /\ rctx[r].queries < MaxContextCount
          /\ rctx' = [rctx EXCEPT ![r].queries = @ + 1]
    /\ UNCHANGED <<active_requests, completed_requests, rpc>>

\* The body of request_context() ends: add_error when it raised, then
\* complete_request_context in the finally block.
CompleteRequestContext(r, raised) ==
    /\ RCFrame
    /\ rpc[r] = "running"
    /\ rpc' = [rpc EXCEPT ![r] = "left"]
    /\ LET c == IF raised THEN add_error(rctx[r]) ELSE rctx[r]
           done == completed_requests \cup {r}
       IN  IF r \in active_requests
             THEN /\ active_requests' = active_requests \ {r}
                  /\ rctx' = [rctx EXCEPT ![r] = complete_request(c)]
                  /\ completed_requests' =
                        IF Cardinality(done) > max_completed_requests
                          THEN done \ Oldest(done, TrimOldest)
                          ELSE done
             ELSE /\ rctx' = [rctx EXCEPT ![r] = c]
                  /\ UNCHANGED <<active_requests, completed_requests>>

\* cleanup_stale_requests: the active requests that started before the
\* cutoff, here those up to request k, are retired.
CleanupStaleRequests(k) ==
    /\ RCFrame
    /\ LET stale == {r \in active_requests : r <= k}
       IN  /\ stale # {}
           /\ active_requests' = active_requests \ stale
           /\ rctx' = [r \in Requests |->
                          IF r \in stale THEN complete_request(add_error(rctx[r]))
                          ELSE rctx[r]]
           /\ completed_requests' = completed_requests \cup stale
    /\ UNCHANGED rpc

RCNext ==
    \/ \E r \in Requests : CreateRequestContext(r)
    \/ \E r \in Requests : RequestWork(r)
    \/ \E r \in Requests, raised \in BOOLEAN : CompleteRequestContext(r, raised)
    \/ \E k \in Requests : CleanupStaleRequests(k)

(***************************************************************************)
(* Claims about request contexts                                           *)
(***************************************************************************)

\* C25: the end_time of a request context is set exactly when the request
\* has left the core, and once it is set no field of the context changes,
\* for contexts completed normally and for those the stale cleaner retires.
C25_EndTimeIffLeftAndFrozen ==
    /\ [](\A r \in Requests : rctx[r].ended <=> rpc[r] = "left")
    /\ [][\A r \in Requests : rctx[r].ended => rctx'[r] = rctx[r]]_vars

\* C26: the history never holds more than max_completed_requests contexts,
\* whether they arrive by completion or by the stale cleanup, and a context
\* that has just completed is in the history with its end_time set.
C26_HistoryBounded ==
    /\ [](Cardinality(completed_requests) <= max_completed_requests)
    /\ [][\A r \in Requests :
            (~rctx[r].ended /\ rctx'[r].ended) => r \in completed_requests']_vars

(***************************************************************************)
(* Fair resource allocator: utils/resource_allocator.py                    *)
(*                                                                         *)
(* Amounts are whole allocation units.  Every client has the default       *)
(* weight 1.0.  The allocation history stays shorter than its window of    *)
(* ten entries, because round-robin refuses a client at three entries.     *)
(***************************************************************************)

\* Number of clients and ResourcePool.total_capacity of every pool, scaled down.
NumAllocClients == 2
total_capacity == 2
\* Longest pending queue followed.
MaxPending == 1

AllocClients == 1..NumAllocClients
ResourceTypes == {"connections"}
Priorities == {1, 5}
Strategies == {"fair_share", "priority_based", "weighted_fair", "round_robin"}
\* Round-robin refuses a client with this many recent allocations.
RoundRobinRecent == 3

ResourceRequests ==
    [client_id : AllocClients, resource_type : ResourceTypes,
     amount : 1..total_capacity, priority : Priorities]

NoRequest == [outcome |-> "none", success |-> FALSE]

\* The allocator with its pools, before any allocation.
NewAllocator ==
    [pool_allocated |-> [ty \in ResourceTypes |-> 0],
     allocated_resources |-> [c \in AllocClients |-> [ty \in ResourceTypes |-> 0]],
     recent |-> [c \in AllocClients |-> 0]]

RAInit ==
    /\ strategy \in Strategies
    /\ ra = NewAllocator
    /\ pending_requests = EmptyBag
    /\ lastRequest = NoRequest

\* `client_id in self.client_allocations`: the entry is made by the first
\* allocation and deleted by the release that leaves nothing allocated.
HasAllocation(a, c) == \E ty \in ResourceTypes : a.allocated_resources[c][ty] > 0

active_clients(a) == Cardinality({c \in AllocClients : HasAllocation(a, c)})

\* ResourcePool.can_allocate answering yes whatever is available.
can_allocate_always(a, ty, amount) == TRUE

\* ResourcePool.can_allocate.
can_allocate(a, ty, amount) == total_capacity - a.pool_allocated[ty] >= amount

\* _can_allocate_by_strategy: _check_fair_share (10% tolerance),
\* _check_priority_based (a tenth of the capacity is reserved for priority 4
\* and above), _check_weighted_fair (20% tolerance) and _check_round_robin,
\* in whole numbers.
can_allocate_by_strategy(a, req) ==
    LET current == a.allocated_resources[req.client_id][req.resource_type]
    IN  CASE strategy = "fair_share" ->
               HasAllocation(a, req.client_id)
                   => 10 * (current + req.amount) * (active_clients(a) + 1)
                          <= 11 * total_capacity
          [] strategy = "priority_based" ->
               IF req.priority >= 4
                 THEN 10 * (total_capacity - a.pool_allocated[req.resource_type])
                          + total_capacity >= 10 * req.amount
                 ELSE can_allocate(a, req.resource_type, req.amount)
          [] strategy = "weighted_fair" ->
               HasAllocation(a, req.client_id)
                   => 5 * (current + req.amount) * (active_clients(a) + 1)
                          <= 6 * total_capacity
          [] strategy = "round_robin" -> a.recent[req.client_id] < RoundRobinRecent

\* _perform_allocation: ResourcePool.allocate, ClientAllocation.add_allocation
\* and the record appended to allocation_history; the allocator after it.
perform_allocation(a, req) ==
    IF can_allocate(a, req.resource_type, req.amount)
      THEN [pool_allocated |->
                [a.pool_allocated EXCEPT ![req.resource_type] = @ + req.amount],
            allocated_resources |->
                [a.allocated_resources EXCEPT
                    ![req.client_id][req.resource_type] = @ + req.amount],
            recent |-> IF strategy = "round_robin"
                         THEN [a.recent EXCEPT ![req.client_id] = @ + 1]
                         ELSE a.recent]
      ELSE a

\* _try_immediate_allocation: whether the request gets allocated.
try_immediate_allocation(a, req) ==
    /\ can_allocate(a, req.resource_type, req.amount)
    /\ can_allocate_by_strategy(a, req)
    /\ perform_allocation(a, req) # a

\* request_resources for an existing pool and a valid amount: allocated at
\* once, or pushed on the pending heap; both return (True, request_id).
RequestResources(req) ==
    /\ RAFrame
    /\ IF try_immediate_allocation(ra, req)
         THEN /\ ra' = perform_allocation(ra, req)
              /\ lastRequest' = [outcome |-> "allocated", success |-> TRUE]
              /\ UNCHANGED pending_requests
         ELSE /\ BagCardinality(pending_requests) < MaxPending
              /\ pending_requests' = pending_requests (+) SetToBag({req})
              /\ lastRequest' = [outcome |-> "queued", success |-> TRUE]
              /\ UNCHANGED ra
    /\ UNCHANGED strategy

\* release_resources: at most what the client holds is released.
ReleaseResources(c, ty, amount) ==
    /\ RAFrame
    /\ HasAllocation(ra, c)
    /\ LET held == ra.allocated_resources[c][ty]
           released_amount == IF held < amount THEN held ELSE amount
       IN  ra' = [ra EXCEPT
                    !.pool_allocated[ty] = IF @ > released_amount
                                             THEN @ - released_amount ELSE 0,
                    !.allocated_resources[c][ty] = @ - released_amount]
    /\ lastRequest' = NoRequest
    /\ UNCHANGED <<strategy, pending_requests>>

\* The requests of the sequence q, as a bag.
RECURSIVE BagOf(_)
BagOf(q) == IF q = <<>> THEN EmptyBag ELSE SetToBag({Head(q)}) (+) BagOf(Tail(q))

\* The orders in which heappop can return the pending requests: by
\* priority, highest first.
HeapOrders(b) ==
    {q \in [1..BagCardinality(b) -> BagToSet(b)] :
        /\ BagOf(q) = b
        /\ \A i, j \in 1..Len(q) : i < j => q[i].priority >= q[j].priority}

\* The `while self.pending_requests` loop of _process_pending_requests on the
\* requests q in the order of the heap: an expired request is dropped, one
\* that is allocated leaves the heap, the first that is not is pushed back
\* and ends the loop.  The allocator and the heap after the loop.
RECURSIVE process_pending_requests(_, _, _)
process_pending_requests(a, q, expired) ==
    IF q = <<>> THEN [ra |-> a, pending |-> <<>>]
    ELSE IF Head(q) \in expired THEN process_pending_requests(a, Tail(q), expired)
    ELSE IF try_immediate_allocation(a, Head(q))
      THEN process_pending_requests(perform_allocation(a, Head(q)), Tail(q), expired)
    ELSE [ra |-> a, pending |-> q]

\* _allocation_loop wakes up and runs _process_pending_requests; expired are
\* the pending requests whose max_wait_time has passed.
ProcessPendingRequests ==
    /\ RAFrame
    /\ pending_requests # EmptyBag
    /\ \E q \in HeapOrders(pending_requests) :
       \E expired \in SUBSET BagToSet(pending_requests) :
          LET after == process_pending_requests(ra, q, expired)
          IN  /\ ra' = after.ra
              /\ pending_requests' = BagOf(after.pending)
              /\ lastRequest' =
                    IF expired = {}
                      THEN [outcome |-> "processed", success |-> FALSE]
                      ELSE NoRequest
    /\ UNCHANGED strategy

\* The allocator after a first request was allocated and two further
\* requests, which could not be, were queued behind it.
RAQueueInit ==
    /\ strategy \in Strategies
    /\ \E first \in ResourceRequests :
          /\ try_immediate_allocation(NewAllocator, first)
          /\ ra = perform_allocation(NewAllocator, first)
    /\ \E r1, r2 \in ResourceRequests :
          /\ ~try_immediate_allocation(ra, r1)
          /\ ~try_immediate_allocation(ra, r2)
          /\ pending_requests = SetToBag({r1}) (+) SetToBag({r2})
    /\ lastRequest = [outcome |-> "queued", success |-> TRUE]

RANext ==
    \/ \E req \in ResourceRequests : RequestResources(req)
    \/ \E c \in AllocClients, ty \in ResourceTypes, amount \in 1..total_capacity :
          ReleaseResources(c, ty, amount)
    \/ ProcessPendingRequests

(***************************************************************************)
(* Claims about the resource allocator                                     *)
(***************************************************************************)

\* The sum of f over the set S of clients.
RECURSIVE SumOver(_, _)
SumOver(f, S) ==
    IF S = {} THEN 0
    ELSE LET c == CHOOSE x \in S : TRUE IN f[c] + SumOver(f, S \ {c})

\* C27: for every resource type, the amounts allocated to the clients sum
\* to at most the total capacity of the pool, at all times.
C27_AllocatedWithinCapacity ==
    \A ty \in ResourceTypes :
        SumOver([c \in AllocClients |-> ra.allocated_resources[c][ty]], AllocClients)
            <= total_capacity

\* A pool is fully allocated, shared by two clients, with a request pending.
C27_Witness ==
    \E ty \in ResourceTypes :
        /\ ra.pool_allocated[ty] = total_capacity
        /\ \A c \in AllocClients : ra.allocated_resources[c][ty] > 0
        /\ pending_requests # EmptyBag

\* C35: when the background loop has run and no pending request had
\* expired, no request that fits in the available capacity under the
\* strategy is left in the heap behind a request of higher priority that
\* does not fit.
C35_PendingHeapDrained ==
    lastRequest.outcome = "processed" =>
        \A req, head \in BagToSet(pending_requests) :
            (head.priority > req.priority /\ ~try_immediate_allocation(ra, head))
                => ~try_immediate_allocation(ra, req)

\* C36: request_resources reports success only when the amount has been
\* allocated to the client, not when the request was only queued.
C36_SuccessMeansAllocated ==
    lastRequest.success => lastRequest.outcome = "allocated"

(***************************************************************************)
(* Backoff and RetryWithBackoff (rate_limiting/backoff.py)                 *)
(*                                                                         *)
(* Durations are integer ticks.  random.uniform(a, b) is a choice among    *)
(* the integers of [a, b].                                                 *)
(***************************************************************************)
max_attempts == 3
initial_delay == 2
max_delay == 6
total_timeout == 3
MaxCallTicks == 1

exponential_base == 2
polynomial_degree == 2
JitterRatioDivisor == 10
linear_increment == initial_delay
exponential_cap == max_delay
fibonacci_multiplier == 1

BackoffStrategies == {"fixed", "linear", "exponential", "fibonacci", "polynomial"}
JitterTypes == {"none", "full", "equal", "decorrelated", "limited"}
BackoffConfigs ==
    [strategy : BackoffStrategies, jitter_type : JitterTypes,
     total_timeout : {0, total_timeout}]

NoException == [kind |-> "none", call |-> 0]
NoError == [attempts |-> 0, cause |-> NoException]

BOInit ==
    /\ bcfg \in BackoffConfigs
    /\ attempt_count = 0
    /\ elapsed = 0
    /\ attempt = 0
    /\ last_exception = NoException
    /\ retry_pc = "call"
    /\ error = NoError
    /\ delay_sum = 0
    /\ calls = 0
    /\ func_exception = NoException

RECURSIVE Power(_, _)
Power(b, n) == IF n = 0 THEN 1 ELSE b * Power(b, n - 1)

RECURSIVE fibonacci(_)
fibonacci(n) == IF n <= 1 THEN n ELSE fibonacci(n - 1) + fibonacci(n - 2)

fibonacci_delay(n) == initial_delay * fibonacci_multiplier * fibonacci(n + 1)

\* The delay of a strategy before max_delay and jitter are applied.
strategy_delay(cfg, n) ==
    CASE cfg.strategy = "fixed" -> initial_delay
      [] cfg.strategy = "linear" -> initial_delay + n * linear_increment
      [] cfg.strategy = "exponential" ->
            MinOf(initial_delay * Power(exponential_base, n), exponential_cap)
      [] cfg.strategy = "fibonacci" -> fibonacci_delay(n)
      [] cfg.strategy = "polynomial" -> initial_delay * Power(n, polynomial_degree)

\* The set of values _apply_jitter can return for a delay.
apply_jitter(cfg, delay, n) ==
    CASE cfg.jitter_type = "full" -> 0 .. delay
      [] cfg.jitter_type = "equal" ->
            {(delay \div 2) + u : u \in 0 .. (delay \div 2)}
      [] cfg.jitter_type = "decorrelated" ->
            IF n = 0 THEN {delay} ELSE initial_delay .. (delay * 3)
      [] cfg.jitter_type = "limited" ->
            (delay - delay \div JitterRatioDivisor) ..
                (delay + delay \div JitterRatioDivisor)

\* The set of values _calculate_delay can return.
calculate_delay(cfg, n) ==
    LET delay == MinOf(strategy_delay(cfg, n), max_delay)
    IN  IF cfg.jitter_type = "none"
        THEN {MaxOf(0, delay)}
        ELSE {MaxOf(0, d) : d \in apply_jitter(cfg, delay, n)}

\* The two StopIteration conditions of Backoff.__next__.
StopIteration ==
    \/ attempt_count >= max_attempts
    \/ bcfg.total_timeout # 0 /\ elapsed >= bcfg.total_timeout

\* The end of one turn of the wrapper's for loop whose body raised a
\* retryable exception.
NextAttempt ==
    /\ attempt' = attempt + 1
    /\ retry_pc' = IF attempt + 1 < max_attempts THEN "wait" ELSE "exhausted"

\* backoff.wait() at the head of a retry: __next__ and the sleep.  The
\* BackoffError of a stopped iterator is raised inside the wrapper's try
\* block and is an Exception, so the wrapper keeps it as last_exception
\* and goes on with the loop.
BackoffWait ==
    /\ BOFrame
    /\ retry_pc = "wait"
    /\ IF StopIteration
       THEN /\ last_exception' = [kind |-> "BackoffError", call |-> 0]
            /\ NextAttempt
            /\ UNCHANGED <<attempt_count, elapsed, delay_sum>>
       ELSE \E delay \in calculate_delay(bcfg, attempt_count) :
                /\ attempt_count' = attempt_count + 1
                /\ delay_sum' = delay_sum + delay
                /\ elapsed' = elapsed + delay
                /\ retry_pc' = "call"
                /\ UNCHANGED <<attempt, last_exception>>
    /\ UNCHANGED <<bcfg, error, calls, func_exception>>

\* The wrapped function runs: it returns, raises an exception of retry_on,
\* or raises one of stop_on (or outside retry_on), which the wrapper
\* re-raises.
CallFunction(outcome, ticks) ==
    /\ BOFrame
    /\ retry_pc = "call"
    /\ calls' = calls + 1
    /\ elapsed' = elapsed + ticks
    /\ LET e == [kind |-> outcome, call |-> calls + 1]
       IN  CASE outcome = "ok" ->
                    /\ retry_pc' = "returned"
                    /\ UNCHANGED <<attempt, last_exception, func_exception, error>>
             [] outcome = "stop" ->
                    /\ last_exception' = e
                    /\ func_exception' = e
                    /\ error' = [attempts |-> 0, cause |-> e]
                    /\ retry_pc' = "raised"
                    /\ UNCHANGED attempt
             [] outcome = "retry" ->
                    /\ last_exception' = e
                    /\ func_exception' = e
                    /\ NextAttempt
                    /\ UNCHANGED error
    /\ UNCHANGED <<bcfg, attempt_count, delay_sum>>

\* After the loop: raise BackoffError(...) from last_exception.
GiveUp ==
    /\ BOFrame
    /\ retry_pc = "exhausted"
    /\ error' = [attempts |-> max_attempts, cause |-> last_exception]
    /\ retry_pc' = "gave_up"
    /\ UNCHANGED <<bcfg, attempt_count, elapsed, attempt, last_exception,
                   delay_sum, calls, func_exception>>

BONext ==
    \/ BackoffWait
    \/ \E outcome \in {"ok", "retry", "stop"}, ticks \in 0 .. MaxCallTicks :
           CallFunction(outcome, ticks)
    \/ GiveUp

\* C28: when total_timeout is set, the sum of the delays the backoff
\* iterator has produced is at most total_timeout, for every strategy and
\* jitter mode.
C28_DelaySumWithinTotalTimeout ==
    bcfg.total_timeout # 0 => delay_sum <= bcfg.total_timeout

\* C29: when RetryWithBackoff gives up, the BackoffError wraps the last
\* exception the wrapped function raised and its attempts value is the
\* number of times the wrapped function was called.
C29_GiveUpReportsLastExceptionAndCalls ==
    retry_pc = "gave_up" =>
        /\ error.cause = func_exception
        /\ error.attempts = calls

(***************************************************************************)
(* ConnectionMultiplexer (utils/connection_multiplexer.py)                 *)
(*                                                                         *)
(* The tasks are the pool's request tasks; pool.acquire() is the pool      *)
(* component's.  The sections under the multiplexer's own lock contain no  *)
(* suspension point, so that lock is always free when a task reaches it.   *)
(* Lease ages and idle times are not measured: whether a lease is still    *)
(* fresh or already expired is a choice.                                   *)
(***************************************************************************)
NumMuxClients == 2
max_leases_per_client == 1
MaxLeases == 3

MuxClients == 1..NumMuxClients

MuxInit ==
    /\ active_leases = {}
    /\ total_leases_created = 0
    /\ mpc = [t \in Tasks |-> "idle"]
    /\ mclient = [t \in Tasks |-> 1]
    /\ yielded = [t \in Tasks |-> NoConn]

\* client_leases[client_id]
client_leases(leases, k) == {l \in leases : l.client_id = k}

\* min(client_leases[client_id], key=created_at): lease ids grow with time.
oldest_lease(leases, k) ==
    CHOOSE l \in client_leases(leases, k) :
        \A o \in client_leases(leases, k) : l.lease_id <= o.lease_id

\* A task runs from one suspension point to the next without interruption:
\* between the pool handing it a connection and its scope being entered,
\* and while an exception of pool.acquire() propagates, no other task runs.
Running(t) ==
    /\ mpc[t] \in {"create", "for_lease"}
    /\ tpc[t] \in {"in_scope", "idle"}

NoTaskRunning == \A t \in Tasks : ~Running(t)

\* acquire_connection up to the first suspension point: _try_reuse_connection,
\* then either _get_connection_for_lease or the first part of
\* _create_new_lease (evicting the client's oldest lease at the cap), and in
\* both cases pool.acquire().
AcquireConnection(t, k, prefer_new) ==
    /\ MuxFrame
    /\ NoTaskRunning
    /\ mpc[t] = "idle"
    /\ total_leases_created < MaxLeases
    /\ mclient' = [mclient EXCEPT ![t] = k]
    /\ \E reuse \in {r \in BOOLEAN :
                        r => ~prefer_new /\ client_leases(active_leases, k) # {}} :
          IF reuse
            THEN /\ mpc' = [mpc EXCEPT ![t] = IF closed THEN "idle" ELSE "for_lease"]
                 /\ UNCHANGED active_leases
            ELSE /\ mpc' = [mpc EXCEPT ![t] = IF closed THEN "idle" ELSE "create"]
                 /\ active_leases' =
                        IF Cardinality(client_leases(active_leases, k))
                               >= max_leases_per_client
                          THEN active_leases \ {oldest_lease(active_leases, k)}
                          ELSE active_leases
    /\ acquire(t)
    /\ UNCHANGED <<total_leases_created, yielded>>

\* pool.acquire() raised (the driver failed or the task was cancelled while
\* the connection was being created): acquire_connection lets it through.
AcquireFailed(t) ==
    /\ MuxFrame
    /\ mpc[t] \in {"create", "for_lease"}
    /\ tpc[t] = "idle"
    /\ mpc' = [mpc EXCEPT ![t] = "idle"]
    /\ UNCHANGED <<active_leases, total_leases_created, mclient, yielded, poolVars>>

\* The body of `async with pool.acquire() as connection:` in
\* _create_new_lease (the lease is registered) and in
\* _get_connection_for_lease, up to acquire_connection's `yield connection`.
\* Both bodies end with `return`, which leaves the pool's scope: the pool's
\* `finally` marks the connection available before the caller gets it.
LeaseReturn(t) ==
    /\ MuxFrame
    /\ mpc[t] \in {"create", "for_lease"}
    /\ tpc[t] = "in_scope"
    /\ IF mpc[t] = "create"
         THEN /\ active_leases' = active_leases \cup
                     {[lease_id |-> total_leases_created + 1,
                       client_id |-> mclient[t],
                       connection_id |-> tconn[t]]}
              /\ total_leases_created' = total_leases_created + 1
         ELSE UNCHANGED <<active_leases, total_leases_created>>
    /\ ReleaseOnExit(t, "normal")
    /\ yielded' = [yielded EXCEPT ![t] = tconn[t]]
    /\ mpc' = [mpc EXCEPT ![t] = "using"]
    /\ UNCHANGED <<mclient, connections, is_healthy, closed, poolLock, connLock,
                   acquired, hcpc, hcTodo, hcRemove, hcCur, closepc, waited>>

\* The caller's `async with multiplexer.acquire_connection(...)` scope ends;
\* the `finally` only updates the lease's usage statistics.
ReleaseConnection(t) ==
    /\ MuxFrame
    /\ NoTaskRunning
    /\ mpc[t] = "using"
    /\ mpc' = [mpc EXCEPT ![t] = "idle"]
    /\ yielded' = [yielded EXCEPT ![t] = NoConn]
    /\ UNCHANGED <<active_leases, total_leases_created, mclient, poolVars>>

\* cleanup_expired_leases: the leases older than max_lease_duration, that is
\* the n oldest ones, are removed.
CleanupExpiredLeases(n) ==
    /\ MuxFrame
    /\ NoTaskRunning
    /\ \E expired \in SUBSET active_leases :
          /\ Cardinality(expired) = n
          /\ \A e \in expired, l \in active_leases \ expired :
                 e.lease_id < l.lease_id
          /\ active_leases' = active_leases \ expired
    /\ UNCHANGED <<total_leases_created, mpc, mclient, yielded, poolVars>>

MuxNext ==
    \/ \E t \in Tasks, k \in MuxClients, prefer_new \in BOOLEAN :
           AcquireConnection(t, k, prefer_new)
    \/ \E t \in Tasks : NoTaskRunning /\ GetConnection(t)
    \/ \E t \in Tasks : NoTaskRunning /\ CreateConnection(t)
    \/ \E t \in Tasks : AcquireFailed(t)
    \/ \E t \in Tasks : LeaseReturn(t)
    \/ \E t \in Tasks : ReleaseConnection(t)
    \/ \E n \in 1..MaxLeases : CleanupExpiredLeases(n)

\* C30: a connection yielded by acquire_connection is marked in use in the
\* pool for as long as the caller's scope holds it, and no two scopes hold
\* the same connection.
C30_YieldedConnectionStaysBorrowed ==
    \A t \in Tasks :
        mpc[t] = "using" =>
            /\ in_use[yielded[t]]
            /\ \A u \in Tasks \ {t} : mpc[u] = "using" => yielded[u] # yielded[t]

\* C34: a client never has more active leases than max_leases_per_client,
\* whatever the interleaving of its acquire_connection calls.
C34_LeasesWithinClientCap ==
    \A k \in MuxClients :
        Cardinality(client_leases(active_leases, k)) <= max_leases_per_client

(***************************************************************************)
(* Requests around the rate limiter: rate_limiting/rate_limiter.py         *)
(*                                                                         *)
(* A request passes check_rate_limits, calls acquire_request_slot, runs    *)
(* its scope and calls release_request_slot in a finally block.  These are *)
(* three calls of the limiter's interface; each is one atomic step.  The   *)
(* limiter does not tie a passed check to the acquire that follows it: the *)
(* calls of other requests come between the two wherever the caller        *)
(* suspends between them.                                                  *)
(***************************************************************************)

NumSlotRequests == 2
SlotRequests == 1..NumSlotRequests

SlotInit == slot_pc = [r \in SlotRequests |-> "idle"]

\* `await rate_limiter.check_rate_limits(client_id)`: a RateLimitError ends
\* the request.
RequestCheck(r) ==
    /\ SlotFrame
    /\ slot_pc[r] = "idle"
    /\ check_rate_limits
    /\ slot_pc' = [slot_pc EXCEPT ![r] = IF rlLast'.result = "ok" THEN "checked"
                                                                  ELSE "idle"]

\* `await rate_limiter.acquire_request_slot(client_id)`.
RequestAcquire(r) ==
    /\ SlotFrame
    /\ slot_pc[r] = "checked"
    /\ acquire_request_slot
    /\ slot_pc' = [slot_pc EXCEPT ![r] = "in_scope"]

\* `finally: await rate_limiter.release_request_slot(client_id)`.
RequestRelease(r) ==
    /\ SlotFrame
    /\ slot_pc[r] = "in_scope"
    /\ release_request_slot
    /\ slot_pc' = [slot_pc EXCEPT ![r] = "idle"]

SlotNext ==
    \E r \in SlotRequests :
        \/ RequestCheck(r)
        \/ RequestAcquire(r)
        \/ RequestRelease(r)

(***************************************************************************)
(* Claims about the request slots                                          *)
(***************************************************************************)

\* C37: the number of requests that hold a request slot, and with it the
\* concurrent-requests gauge of the client and the global one, never exceeds
\* the configured concurrent-requests limit, when every request passes
\* check_rate_limits before it calls acquire_request_slot.
C37_SlotsWithinConcurrentLimit ==
    /\ Cardinality({r \in SlotRequests : slot_pc[r] = "in_scope"}) <= rlcfg.concurrent
    /\ cstats.concurrent_requests <= rlcfg.concurrent
    /\ gstats.concurrent_requests <= rlcfg.gconcurrent

(***************************************************************************)
(* Specifications                                                          *)
(***************************************************************************)

\* The other components' state while one component is explored: the first
\* of their initial states.
PoolIdle == PoolInit /\ connections = 1..min_size
TxIdle == TxInit /\ sess.db = "DB0" /\ sess.schema = "PUBLIC"

QuotaIdle == QuotaInit /\ ~qcfg.rollover_allowed /\ qcfg.burst_allowance = 0
CBIdle ==
    /\ CBInit
    /\ cbcfg = [failure_threshold |-> FailureThreshold, success_threshold |-> SuccessThreshold,
                half_open_max_calls |-> 1, exponential_backoff |-> FALSE]
RLIdle ==
    /\ RLInit
    /\ rlcfg.limit = LowLimit /\ rlcfg.burst = LowBurst
    /\ windowStart = 0
SQLIdle == SQLInit /\ vcfg.readonly_mode /\ vcfg.strict_validation /\ vquery = NoQuery
HandlerIdle == HandlerInit /\ ~hreq.rate_limited /\ ~hreq.quota_exhausted
RCIdle == RCInit
RAIdle == RAInit /\ strategy = "weighted_fair"
BOIdle == BOInit /\ bcfg = [strategy |-> "fixed", jitter_type |-> "none", total_timeout |-> 0]
MuxIdle == MuxInit
SlotIdle == SlotInit

InitPool == PoolInit /\ TxIdle /\ QuotaIdle /\ CBIdle /\ RLIdle /\ SQLIdle /\ HandlerIdle /\ RCIdle /\ RAIdle /\ BOIdle /\ MuxIdle /\ SlotIdle
SpecPool == InitPool /\ [][PoolNext]_vars

InitTx == TxInit /\ PoolIdle /\ QuotaIdle /\ CBIdle /\ RLIdle /\ SQLIdle /\ HandlerIdle /\ RCIdle /\ RAIdle /\ BOIdle /\ MuxIdle /\ SlotIdle
SpecTx == InitTx /\ [][TxNext]_vars

InitQuota == QuotaInit /\ PoolIdle /\ TxIdle /\ CBIdle /\ RLIdle /\ SQLIdle /\ HandlerIdle /\ RCIdle /\ RAIdle /\ BOIdle /\ MuxIdle /\ SlotIdle
SpecQuota == InitQuota /\ [][QuotaNext]_vars

\* Scenario S3's quota (no burst, no rollover); every enabled step of the
\* quota manager's callers is eventually taken.
InitQuotaS3 == InitQuota /\ qcfg.burst_allowance = 0 /\ ~qcfg.rollover_allowed
SpecQuotaLive == InitQuotaS3 /\ [][QuotaNext]_vars /\ WF_vars(QuotaNext)

InitCB == CBInit /\ PoolIdle /\ TxIdle /\ QuotaIdle /\ RLIdle /\ SQLIdle /\ HandlerIdle /\ RCIdle /\ RAIdle /\ BOIdle /\ MuxIdle /\ SlotIdle
SpecCB == InitCB /\ [][CBNext]_vars
\* Calls keep arriving at the breaker, and every call that was admitted ends.
SpecCBLive ==
    /\ InitCB
    /\ [][CBNext]_vars
    /\ WF_vars(\E c \in Callers : CallStart(c))
    /\ WF_vars(\E c \in Callers, o \in CallOutcomes : CallReturn(c, o))

InitRL == RLInit /\ PoolIdle /\ TxIdle /\ QuotaIdle /\ CBIdle /\ SQLIdle /\ HandlerIdle /\ RCIdle /\ RAIdle /\ BOIdle /\ MuxIdle /\ SlotIdle
SpecRL == InitRL /\ [][RLNext]_vars

InitSQL == SQLInit /\ PoolIdle /\ TxIdle /\ QuotaIdle /\ CBIdle /\ RLIdle /\ HandlerIdle /\ RCIdle /\ RAIdle /\ BOIdle /\ MuxIdle /\ SlotIdle
SpecSQL == InitSQL /\ [][SQLNext]_vars

InitHandler ==
    HandlerInit /\ SQLInit /\ PoolIdle /\ TxIdle /\ QuotaIdle /\ CBIdle /\ RLIdle /\ RCIdle /\ RAIdle /\ BOIdle /\ MuxIdle /\ SlotIdle
SpecHandler == InitHandler /\ [][HandlerNext]_vars

InitRC == RCInit /\ PoolIdle /\ TxIdle /\ QuotaIdle /\ CBIdle /\ RLIdle /\ SQLIdle /\ HandlerIdle /\ RAIdle /\ BOIdle /\ MuxIdle /\ SlotIdle
SpecRC == InitRC /\ [][RCNext]_vars

InitRA == RAInit /\ PoolIdle /\ TxIdle /\ QuotaIdle /\ CBIdle /\ RLIdle /\ SQLIdle /\ HandlerIdle /\ RCIdle /\ BOIdle /\ MuxIdle /\ SlotIdle
SpecRA == InitRA /\ [][RANext]_vars
InitRAQueue == RAQueueInit /\ PoolIdle /\ TxIdle /\ QuotaIdle /\ CBIdle /\ RLIdle /\ SQLIdle /\ HandlerIdle /\ RCIdle /\ BOIdle /\ MuxIdle /\ SlotIdle
SpecRAQueue == InitRAQueue /\ [][RANext]_vars

InitBO == BOInit /\ PoolIdle /\ TxIdle /\ QuotaIdle /\ CBIdle /\ RLIdle /\ SQLIdle /\ HandlerIdle /\ RCIdle /\ RAIdle /\ MuxIdle /\ SlotIdle
SpecBO == InitBO /\ [][BONext]_vars

InitMux == MuxInit /\ PoolInit /\ TxIdle /\ QuotaIdle /\ CBIdle /\ RLIdle /\ SQLIdle /\ HandlerIdle /\ RCIdle /\ RAIdle /\ BOIdle /\ SlotIdle
SpecMux == InitMux /\ [][MuxNext]_vars

InitSlot == SlotInit /\ PoolIdle /\ TxIdle /\ QuotaIdle /\ CBIdle /\ RLInit /\ SQLIdle /\ HandlerIdle /\ RCIdle /\ RAIdle /\ BOIdle /\ MuxIdle
SpecSlot == InitSlot /\ [][SlotNext]_vars

====
